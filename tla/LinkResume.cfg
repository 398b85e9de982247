SPECIFICATION FairSpec
CONSTANTS
  Slot = {c1, c2}
  MaxWishes = 2
  MaxTroubles = 1
PROPERTY Resumes
