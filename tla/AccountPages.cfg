SPECIFICATION PagesSpec
CONSTANTS
  r1 = r1
  r2 = r2
  d1 = d1
  d2 = d2
  s1 = s1
  s2 = s2
  u1 = u1
  u2 = u2
  a1 = a1
  a2 = a2
  a3 = a3
  g1 = g1
  g2 = g2
  w1 = w1
  w2 = w2
  v1 = v1
  v2 = v2
  Request = {r1, r2}
  NoRequest = NoRequest
  MaxLinks = 3
  MaxMishaps = 1
  Device = {d1, d2}
  Slot = {s1, s2}
  NoCall = NoCall
  MaxSecrets = 2
  MaxUnheard = 1
  MaxSignIns = 1
  Country = {c1, c2}
  NoPlace = NoPlace
  MaxChoices = 4
  MaxEdits = 2
  MaxProfileMishaps = 1
  Account = {u1, u2}
  Ask = {a1, a2, a3}
  Nothing = Nothing
  MaxAsks = 4
  MaxAdminMishaps = 1
  Gpu = {g1, g2}
  NoGpu = NoGpu
  MaxChanges = 4
  Window = {w1, w2}
  Version = {v1, v2}
  Default = Default
  Limits = {m1}
  Blank = Blank
  Nobody = Nobody
  MaxReleases = 2
  MaxSaves = 2
  MaxFailures = 1
SYMMETRY Symmetric
INVARIANTS
  PagesTypeOK
  LinksDoAsTheySay
  ConfirmedSecret
  PanelIsTrue
  FormsSendWhatIsMeant
  AdministratorReadsTrue
  SettingsKept
CHECK_DEADLOCK FALSE
