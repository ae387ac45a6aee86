SPECIFICATION Spec
CONSTANTS
  deepseek = deepseek
  kimi = kimi
  chat = chat
  other = other
  ds = ds
  nofamily = nofamily
  nomodel = nomodel
  k1 = k1
  k2 = k2
  Provider <- Two_Provider
  Model <- Two_Model
  NoModel = nomodel
  Family <- One_Family
  NoFamily = nofamily
  FamilyOf <- MCFamilyOf
  AdapterOf <- MCAdapterOf
  KeySet <- One_Family
  GlobalKey = FALSE
  SettingsKey = TRUE
  EnvModel = chat
  EnvAdapter = "dashscope"
  RoleModel <- MCRoleModel
  CryptKey <- Two_Key
  MaxRotations = 1
  MaxFaults = 1
INVARIANTS
  RestartUsesChoice
  KeysWrappedOnce
SYMMETRY Alike
