SPECIFICATION FairSpec
CONSTANTS
  Socket = {s1, s2, s3}
  MaxWire = 3
  None = None
INVARIANTS
  OneAttempt
  StatusSound
PROPERTIES
  LinkSpec
  SubscriptionFollowsPage
