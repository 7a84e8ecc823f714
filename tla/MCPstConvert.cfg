SPECIFICATION FairSpec
CONSTANTS
  MaxTokens = 9
  Vocabulary <- MCVocabulary
  GivenTexts <- MCTexts
  BadBase64 = {"!"}
  Kinds = {"mail", "contacts", "calendar", "notes"}
  ArgumentCounts = {3, 4}
INVARIANT AcceptsTheGrammar
INVARIANT MeantIsConverted
PROPERTY EveryCallEnds
