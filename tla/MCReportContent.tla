--------------------------- MODULE MCReportContent ---------------------------
(* Values of the constants of ReportContent for TLC.  Today: one topic in two *)
(* languages and under two labels, and one title on two wikis.  Yesterday: in *)
(* another order, with a title twice, and with pages that are gone.  Claude:  *)
(* another order than the candidates', indices out of range, one index twice, *)
(* and fewer keywords than pages.                                             *)
EXTENDS ReportContent

Row(server, title, qid, edits, described) ==
  [server |-> server, title |-> title, qid |-> qid, edits |-> edits, described |-> described]

Answer(selected, described, keywords) ==
  [selected |-> selected, described |-> described, keywords |-> keywords]

MCServers == {"en", "ko"}
MCTitles == {"a", "b", "c", "d"}
MCQids == {"q1", "q2", "q3"}

MCRows == {
  <<Row("en", "a", "q1", 5, FALSE), Row("ko", "b", "q1", 4, TRUE),
    Row("en", "a", "q1", 3, TRUE), Row("en", "c", "q2", 2, FALSE),
    Row("ko", "a", "q3", 2, FALSE)>>,
  <<Row("en", "a", "q1", 5, TRUE), Row("ko", "a", "q2", 4, FALSE),
    Row("ko", "b", "q1", 3, FALSE), Row("en", "c", NoQid, 2, FALSE)>>}

Gone(title) == [server |-> "en", title |-> title]

MCYesterdays == {
  <<Gone("d"), Gone("c"), Gone("a")>>,
  <<Gone("a"), [server |-> "ko", title |-> "b"], Gone("c")>>,
  <<Gone("c"), Gone("c"), [server |-> "ko", title |-> "a"], Gone("a")>>}

MCAnswers == {
  Answer(<<1, 0>>, {0, 1}, 2),
  Answer(<<2, 1, 0, 1>>, {0, 2}, 1),
  Answer(<<7, 1>>, {1, 7}, 2),
  Answer(<<0, 0>>, {}, 0),
  Answer(<<-1, 9>>, {0}, 1),
  Answer(<<>>, {0, 1, 2}, 2)}
==============================================================================
