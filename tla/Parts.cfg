SPECIFICATION MCSpec
CONSTANTS
  w1 = w1
  w2 = w2
  Api = {w1, w2}
  Key = {k1, k2}
  Client = {c1, m1}
  Cimd = {m1}
  Terms = {t1, t2}
  Title = {n1}
  NoDocument = NoDocument
  NoKey = NoKey
  MaxChanges = 4
  MaxOpen = 1
  Secret = {s1, s2, s3}
  MaxOidcClientSecrets = 2
  Type = {png, svg}
  NoType = NoType
  NoClient = NoClient
  Request = {w1, w2}
  Assertion = {x1}
  Uri = {u1, u2}
  Interaction = {i1}
  Visit = {v1, v2}
  Expiry <- ExpiresEarly
  Skew = 1
  ParLifespan = 1
  MaxTime = 2
  UserGroup = {g1}
  ClaimKey = {key1, "picture"}
  ClaimValue = {x, y}
  NoClaim = NoClaim
  Edit = {w1, w2}
  MaxEdits = 3
  Replica = {w1, w2}
  EncryptionKey = {enc1, enc2}
  StorageRetries = 1
  Material = {1, 2, 3, 4}
  NoConfig = NoConfig
  Server = {w1, w2}
  MaxTurns = 2
  MaxFiles = 3
  Process = {w1, w2}
  Format = {webp, png}
  BundledFormat = webp
  NoFormat = NoFormat
  MaxUploads = 2
  Person = {p1}
  Initials = {ab}
  Worker = {w1, w2}
  NoPicture = NoPicture
  MaxSaves = 2
  User = {u1, u2}
  Browser = {b1, b2}
  Place = {home, away}
  Attempt = {w1, w2}
  NoUser = NoUser
  MaxSignIns = 2
  Upload = {f1, f2}
  MaxUses = 2
SYMMETRY Symmetry
INVARIANTS
  AccessIsOneStory
  ConsentFollowsDocument
  ChangesAddUp
  RequestsComeOnce
  ClaimsAsChosen
  ReplicasAgreeOnKeys
  ChoicesSurvive
  WatchedFileIsServed
  ChosenImageShown
  PicturesFollowUsers
  StrangersAreTold
  RestoredUsesStayUsed
