SPECIFICATION Spec
CONSTANT MaxTaps = 2
INVARIANTS
  TypeOK
  NeverStuck
  BareMenuOnlyByRace
