\* Two legal passwords and one that is too short.
CONSTANTS
  Password = {"pw1", "pw2", "short"}
  Legal = {"pw1", "pw2"}
  Empty = "empty"
  MaxInits = 3
\* A torn store and no keystore: nothing is left to call.
CHECK_DEADLOCK FALSE
SPECIFICATION Spec
INVARIANTS TypeOK OnePassword StoreSaved SecretsNeedPassword
PROPERTIES ThrowChangesNothing SigningKeySurvives
