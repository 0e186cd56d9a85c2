\* Two administrators, a financial command or a retry with two attempts: role
\* changes, lost leases, final settlements, and a target that moves on.
SPECIFICATION RetryFairSpec
CONSTANTS
  alice = alice
  bob = bob
  financial = financial
  retry = retry
  Users <- MCUsers
  Commands <- MCCommands
  Retries <- MCRetries
  ActorOf <- MCActor
  MaxAttempts = 2
  MaxSubmitted = 1
  MaxUpdates = 3
PROPERTIES
  AlwaysAdministered
  OnceByAnAdministrator
  OnlyTheFailureSeen
  EachCommandDecided
