SPECIFICATION FairSpec
CONSTANTS
  t1 = t1
  t2 = t2
  t3 = t3
  p1 = p1
  p2 = p2
  s1 = s1
  m1 = m1
  m2 = m2
  m3 = m3
  Nil = Nil
  Threads = {t1, t2, t3}
  Ports = {p1}
  Sets = {}
  Msgs = {m1, m2, m3}
  WWA = FALSE
  MaySend <- DeathSends
  MayReply <- DeathReplies
  MayReceive <- DeathReceives
  Big = {m2}
  Backlog = 1
  MayBacklog <- Larger
  MayInterrupt = {}
  MayJoin = {}
  MayMove = {p1}
  MayDie = {p1}
  MayDrop = {p1}
  MayEnd = {}
INVARIANTS NotifyExact
PROPERTIES SendersGoOn
CHECK_DEADLOCK FALSE
