SPECIFICATION Spec

CONSTANTS
  None = None
  Request = {r1, r2}
  User = {alice, bob}
  Key = {k1, ec}
  Rsa = {k1}
  SelfSigned = zos
  NoKid = NoKid
  CacheDuration = 2
  FetchTimeout = 1
  LastTime = 3
  Rotations = 2
  Capacity = 2
  Changes = 3

INVARIANTS
  EdgeType
  PublishedServed
  DrainedShowsLast
  CurrentWhenQuiet

PROPERTIES
  WithdrawnDies

CONSTRAINT Apart

SYMMETRY Symmetry

CHECK_DEADLOCK FALSE
