SPECIFICATION Spec
CONSTANTS
  PromptRule = {"override"}
  PIIRule <- MCPIIRule
  CustomRule = {"custom_1", "custom_2"}
  SecurityConfigs <- MCConfigs
  Bodies <- MCBodies
INVARIANTS
  TypeOK
  ModesHonoured
  RedactedBodyClean
