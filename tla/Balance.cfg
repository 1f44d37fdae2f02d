SPECIFICATION Spec
CONSTANTS
  AUTO = AUTO
  Requests <- MCRequests
  Scales <- MCScales
  Models = {1, 2}
  Word = 16
  MayFail = {"is_GetHdrMode", "is_EnableHdr", "IS_AES_CMD_GET_CONFIGURATION_DEFAULT",
             "IS_AES_CMD_SET_ENABLE", "IS_AES_CMD_SET_CONFIGURATION",
             "IS_AWB_CMD_GET_SUPPORTED_TYPES", "IS_AWB_CMD_SET_TYPE",
             "GET_RGB_COLOR_MODEL_DEFAULT", "SET_RGB_COLOR_MODEL",
             "IS_AWB_CMD_GET_SUPPORTED_RGB_COLOR_MODELS", "IS_AWB_CMD_SET_RGB_COLOR_MODEL",
             "IS_AWB_CMD_SET_ENABLE", "GET_TEMPERATURE_MIN", "GET_TEMPERATURE_MAX",
             "SET_TEMPERATURE"}
INVARIANTS
  AutoSupported
  RequestGranted
  ThrownNeverEnables
  FreedOnce
