\* Two sweeps, and one delivery whose endpoint has an unreadable secret.
SPECIFICATION WebhooksFairSpec
CONSTANTS
  None = None
  Patrons = {}
  Sweepers = {s1, s2}
  Deliveries = {d1}
  Unreadable = {d1}
  WebhookMaxAttempts = 2
  HookBatch = 2
  Threshold = 2
  MaxHookFaults = 2
PROPERTY HooksSettle
