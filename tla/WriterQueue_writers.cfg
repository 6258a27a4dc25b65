CONSTANTS
  s1 = s1
  s2 = s2
  Session <- Two
  MaxTurn = 0
  MaxRestart = 1
  Interruptible <- Two
SPECIFICATION FairSpec
 
PROPERTY WaitersAreServed
