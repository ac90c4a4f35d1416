\* Two workers and two events over one channel, without symmetry.
SPECIFICATION OutboxFairSpec
CONSTANTS
  None = None
  Patrons = {}
  Workers = {w1, w2}
  Events = {e1, e2}
  Channels = {email}
  Endpoints = {hook}
  Notified = {e1}
  MaxAttempts = 2
  BatchSize = 2
  MaxFaults = 2
PROPERTY Settles
