SPECIFICATION Spec
CONSTANTS
  t1 = t1
  t2 = t2
  t3 = t3
  p1 = p1
  p2 = p2
  s1 = s1
  m1 = m1
  m2 = m2
  m3 = m3
  Nil = Nil
  Threads = {t1, t2, t3}
  Ports = {p1, p2}
  Sets = {s1}
  Msgs = {m1, m2, m3}
  WWA = FALSE
  MaySend <- SetSends
  MayReply = {}
  MayReceive <- SetReceives
  Big = {m2}
  Backlog = 1
  MayBacklog <- Larger
  MayInterrupt = {t2}
  MayJoin <- SetJoins
  MayMove = {p1}
  MayDie = {}
  MayDrop = {}
  MayEnd = {s1}
INVARIANTS AssertionsHold CountExact  ListsExact
PROPERTIES ImplementsChannel
CHECK_DEADLOCK FALSE
