SPECIFICATION Spec
CONSTANTS
  Chunk <- Chunks
  MaxChunks = 3
  default_max_tokens = 1024
  max_prompt_bytes = 8
  NULL_Q16 <- NullQ16
  HashLen = 2
  HeaderLine <- Headers
  MaxLines = 4
  Hash <- HashText
  ModelId <- ModelText
  StrTok <- Literals
  Undecodable = {"esc"}
  Scalar = {"1"}
  Size <- Sizes
  MaxDepth = 3
  OutputCap = 5
  KeyCap <- Caps
  Member <- Members
  Item <- Items
  MaxParts = 4
  Noise <- NoiseTokens
  KeyName <- Names
  Required = {"model_id", "wal_path"}
  Default <- Defaults
  LineBuf = 9
  GW_CONFIG_MAX = 18
  GW_PATH_MAX = 4
  GW_ID_MAX = 4
  VersionMax = 3
  AX_MAX_ID = 4
  Piece <- Pieces
  MaxPieces = 4
INVARIANTS
  Utf8IsRFC3629
  AdmittedIsFinal
  EscapingLosesNothing
  DecodingIsSound
  SentIsRecorded
  RecoveredAsIntended
  ResponseIsUnderstood
  CutBodyIsRefused
  
  ConfigIsTheFile
  LoadedIdServes
