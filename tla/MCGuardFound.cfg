SPECIFICATION Spec
CONSTANTS
  PromptRule = {"override"}
  PIIRule <- MCPIIRule
  CustomRule = {"custom_1", "custom_2"}
  SecurityConfigs <- RedactConfigs
  Bodies <- MCBodies
INVARIANTS
  FoundIsRedacted
