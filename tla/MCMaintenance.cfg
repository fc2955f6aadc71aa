SPECIFICATION Spec
CONSTANTS
  None = None
  q1 = q1
  q2 = q2
  i1 = i1
  i2 = i2
  i3 = i3
  r1 = r1
  s1 = s1
  s2 = s2
  Procs = {q1, q2}
  Images = {i1, i2, i3}
  RequestIds = {r1}
  Staff = {s1, s2}
  MaxImages = 2
SYMMETRY Interchangeable
INVARIANT TypeOK
INVARIANT HistoryTellsStatus
INVARIANT RequestImagesStored
INVARIANT ImageLimits
INVARIANT GalleryStored
PROPERTY ImagesFreeze
PROPERTY CreatedUnderLease
PROPERTY RequestsAreOrders
