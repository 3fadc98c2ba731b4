CONSTANTS
  a = a  b = b  c = c  d = d  x1 = x1  x2 = x2
  NoNode = NoNode
  Loops <- Swallowed
  NumCpus = 1
SPECIFICATION Spec
INVARIANT CommunicationAlone
