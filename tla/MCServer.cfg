\* Two listenings, two operators, one acceptor and one client.
CONSTANTS
  Operators = {o1, o2}
  Acceptors = {a1}
  MaxListens = 2
  MaxConns = 1
  Nobody = Nobody
SPECIFICATION FairSpec
INVARIANTS
  TypeOK
  ListeningIsWhole
  ChannelsClosedByEnded
PROPERTIES
  NothingOnlyAtTheEnd
  ClosedComesToRest
