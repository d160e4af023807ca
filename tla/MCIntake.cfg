SPECIFICATION Spec
CONSTANTS
  a1 = a1
  a2 = a2
  a3 = a3
  b1 = b1
  t1 = t1
  o1 = o1
  ga = ga
  gb = gb
  None = None
  Texts <- MCTexts
  Photos <- MCPhotos
  Others <- MCOthers
  Groups <- MCGroups
  GroupOf <- MCGroupOf
  MaxPhotos = 2
  MaxFaults = 1
  MaxLives = 2
SYMMETRY Alike
INVARIANTS PhotoGoesOnce UploadIsHeld HeldPhotosFirst NobodyIsStuck
PROPERTY InboxSpec
CHECK_DEADLOCK FALSE
