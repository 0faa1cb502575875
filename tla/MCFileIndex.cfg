CONSTANTS
  Header <- MCHeader
  Layers = 2
  MaxHeaders = 2
SPECIFICATION Spec
INVARIANTS
  BrowsingShowsTheImage
  ListedFilesOpen
\* The client has listed and opened all that it was shown.
CHECK_DEADLOCK FALSE
