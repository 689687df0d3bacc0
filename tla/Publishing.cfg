SPECIFICATION Spec
CONSTANTS
  Nothing = Nothing
  Foreign = Foreign
  World <- MCWorld
  Blob <- MCBlob
  Values <- MCValues
  Steady <- MCSteady
  MaxSwaps = 3
  MaxRuns = 2
  WIKI_MANIFEST = {"Home.md", "Controls.md"}
  README_REQUIRED_WIKI_PAGES = {"Home.md"}
  PageNames <- MCPageNames
  Texts <- MCTexts
  FirstSource <- MCFirstSource
  FirstWiki <- MCFirstWiki
  MaxWikiEvents = 3
  EXPECTED_CHANGES <- MCExpected
  PRESERVED_UNTRACKED = {"tmp"}
  FirstMain <- MCFirstMain
  FirstWork <- MCFirstWork
  Edits <- MCEdits
  MainTrees <- MCMainTrees
  MaxPrEvents = 3
INVARIANTS PublishedIsBound ReviewedIsPublished AuthorizedIsNewer CloneWhole PushedIsAudited PrIsExact
PROPERTIES OthersWorkKept
CHECK_DEADLOCK FALSE
