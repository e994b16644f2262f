SPECIFICATION Spec
CONSTANTS
  Names = {"api", "github", "cdn", "other"}
  Addresses = {"a1", "g1", "c1", "x", "o1"}
  Serves <- MCServes
  Whitelist = {"api", "github", "cdn"}
  Required = "api"
  GitHub = "github"
  Example = "x"
INVARIANTS
  ClaudeIsConfined
  StateIsTrue
