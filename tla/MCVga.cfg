\* The real 800 x 525 raster.
CONSTANTS
  H_TOTAL = 800
  V_TOTAL = 525
  H_Visible = 640
  H_SyncFirst = 656
  H_SyncEnd = 752
  V_Visible = 480
  V_SyncFirst = 490
  V_SyncEnd = 492
  Scenes <- MCScenes
SPECIFICATION FairSpec
INVARIANTS SignalsMatchPixel RightPixel
PROPERTY FrameComes
