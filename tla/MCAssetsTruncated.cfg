CONSTANTS
  Cooked <- OneAsset
  Packs <- OnePack
  Keys = {"ours"}
  HashSize = 1
  SignatureSize = 2
  MaxEntries = 3
  MaxPackSize = 150
  MaxDamages = 1
  MaxCooks = 2
  MaxPathLength = 3
  MaxMeshPoints = 2
  MaxMeshIndices = 3
  MaxSceneNodes = 2
  MaxProperties = 1
  MaxTextureBytes = 17
  MaxScriptBytes = 2
  MaxAudioBytes = 4
  MaxCueVariants = 2
  MaxArchiveBytes = 2
  MaxJoints = 2
  MaxCharacters = 2
SPECIFICATION PacksAlone
INVARIANT NeverTruncated
CHECK_DEADLOCK FALSE
