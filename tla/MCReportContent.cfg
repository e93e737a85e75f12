SPECIFICATION ContentSpec
CONSTANTS
  Servers <- MCServers
  Titles <- MCTitles
  Qids <- MCQids
  Rows <- MCRows
  Yesterdays <- MCYesterdays
  Answers <- MCAnswers
  Shown = 3
  NewsPages = 2
INVARIANTS
  ContentTypeOK
  EditionsAddUp
  TextsOfTheirPages
  BadgesAreTrue
