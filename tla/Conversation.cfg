\* Two turns of a session and three requests of two admins; the caches of a
\* process in which two turns and a save, or two saves, meet; and the cards of a
\* bot with two sessions.
SPECIFICATION AllSpec
CONSTANTS
  Turn = {t1, t2}
  Admin = {a1, a2}
  Widget = TRUE
  Faults = {"store", "model", "reader", "start"}
  MaxRequests = 3
  Nobody = Nobody
  Bot = {"same", "full", "saves"}
  Process = {1}
  Saver = {k1}
  Reader = {r1}
  Takers <- Turning
  Savers <- Saving
  Talks <- Talking
  UserOf <- TwoUsers
  Begins <- Alike
  Room <- Rooms
  Configs <- Versions
  MaxKey = 2
  Session = {s1, s2}
  s1 = s1
  s2 = s2
  s3 = s3
  Channel = {"whatsapp"}
  ChannelOf <- OnePhone
  Label = {"order", "blank", "gpt"}
  Kind <- Contents
  Day = 2
  MaxSpan = 2
  MaxHour = 2
  MaxChange = 2
  None = None
SYMMETRY Symmetry
INVARIANTS
  CountFollows FeedNamesHolder FreshUnlessRaced HandlersKept CardsAddUp
PROPERTY HolderDecides
CHECK_DEADLOCK FALSE
