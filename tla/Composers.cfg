SPECIFICATION ComposersSpec
CONSTANTS
  c1 = c1
  c2 = c2
  t1 = t1
  t2 = t2
  w1 = w1
  w2 = w2
  f1 = f1
  Channels = {c1, c2}
  Words = {w1, w2}
  Files = {f1}
  Mounts = 2
  MaxSends = 2
  MaxSwitches = 2
  Threads = {t1, t2}
  Terms = {w1, w2}
  Attachments = {f1}
  ReplyMounts = 2
  MaxReplies = 2
  MaxThreadSwitches = 2
SYMMETRY Symmetry
CHECK_DEADLOCK FALSE
INVARIANTS
  NothingLost
  PostedOnce
  RightChannel
  ReplyKept
  RepliedOnce
  RightThread
