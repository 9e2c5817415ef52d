\* One app, one user and their instances, all new; the app or the user is updated, once.
CONSTANTS
  Nil = Nil
  Insts = {i1, i2}
  MaxVersions = 2
SYMMETRY Alike
SPECIFICATION OneUpdateSpec
INVARIANT TypeOK
INVARIANT GeneratedUnlessOverrun
INVARIANT NeverAnOldObject
INVARIANT AssociatedUnlessOverrun
CHECK_DEADLOCK FALSE
