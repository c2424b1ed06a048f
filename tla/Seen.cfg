CONSTANTS
  Msgs = {1, 2}
  Recent = 1
  Page = 1
  MaxVerify = 1
  MaxOps = 2
  MaxAsked = 1
  Marks = 2
  Elsewhere = 1
  Moves = 2
  Renumbers = 1
SPECIFICATION FairSpec
INVARIANTS MarksStand BoldIsCounted OpsNameCachedIds
 
