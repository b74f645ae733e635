CONSTANTS
    None = None
    Names <- MCNames
    Contents <- MCContents
    Archives <- MCArchives
    Assets <- MCAssets
    FeatureSets <- MCFeatureSets
    PlainName <- App
    Outside <- OutsideRoot
SPECIFICATION Spec
INVARIANTS ExtractedAsArchived  RepeatsEndAlike
