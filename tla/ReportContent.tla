----------------------------- MODULE ReportContent -----------------------------
(***************************************************************************)
(* What a daily report says: fetch_report_data ranks the pages of the day, *)
(* build_report has Claude choose among them, fetch_news_with_keywords     *)
(* looks for news of them, and publish_report shows them.  Each of these   *)
(* is one action; Reporter has the processes that run them and the file    *)
(* that the report goes through.                                           *)
(*                                                                         *)
(* Things are paired here by position, by title or by Q-id, while the list *)
(* of pages is merged, cut and put into another order.  So a description   *)
(* or a news item is represented by what it is about.                      *)
(*                                                                         *)
(* External: QuestDB's rows, Wikipedia's and Wikidata's answers, Claude's. *)
(* Left out: the overall figures, the reverted pages and the featured      *)
(* article, which meet nothing else; the marks of spikes and cross-wiki    *)
(* trends, which are looked up page by page; the layout.                   *)
(***************************************************************************)
EXTENDS Integers, SequencesExt, FiniteSetsExt, Arithmetic

CONSTANTS
  Servers, Titles, Qids,
  Rows,          \* the answers to the query of the top pages, in its order
  Yesterdays,    \* what there is for the query of yesterday's ranks
  Answers,       \* what Claude may answer
  Shown,         \* how many pages a report has
  NewsPages      \* for how many of them there are news

NoQid == "none"
Nothing == <<>>

\* A row has a page's server, title, edits, the Q-id that Wikipedia has for it, and whether
\* its events carried a description.  An answer has the indices that Claude selected, those
\* it described, and the number of pages it gave keywords for.
ASSUME ReportContentAssumption ==
  /\ \A rows \in Rows :
       rows \in Seq([server : Servers, title : Titles, edits : Nat,
                     qid : Qids \cup {NoQid}, described : BOOLEAN])
  /\ Yesterdays \subseteq Seq([server : Servers, title : Titles])
  /\ \A a \in Answers : a \in [selected : Seq(Int), described : SUBSET Int, keywords : Nat]
  /\ Shown \in Nat /\ NewsPages \in Nat

VARIABLES
  stage,            \* where the run is
  pages,         \* data.top_pages
  news,          \* data.news_items: the page that each search was about
  answer,        \* Claude's answer
  asked,         \* history: the rows as pages, yesterday's rows, and if they were answered
  candidates,    \* history: the pages that Claude chose from
  post           \* what was published of each page

contentVars == <<stage, pages, news, answer, asked, candidates, post>>

NotAsked == [rows |-> <<>>, yesterday |-> <<>>, known |-> FALSE]

\* An answer that is no JSON: all of it becomes the headline.
NoJson == [selected |-> <<>>, described |-> {}, keywords |-> 0]

ContentInit ==
  /\ stage = "fetching"
  /\ pages = <<>> /\ news = <<>>
  /\ answer = NoJson
  /\ asked = NotAsked
  /\ candidates = <<>>
  /\ post = <<>>

-----------------------------------------------------------------------------
(* fetch_report_data. *)

Id(page) == <<page.server, page.title>>

\* The Q-id, or the page itself.
Key(page) == IF page.qid # NoQid THEN <<page.qid>> ELSE Id(page)

Edition(page) == [server |-> page.server, edits |-> page.edits]

\* The rows as pages; the Q-ids of some could not be fetched.
Pages(rows, unknown) ==
  [i \in DOMAIN rows |->
    [server |-> rows[i].server, title |-> rows[i].title, edits |-> rows[i].edits,
     qid |-> IF i \in unknown THEN NoQid ELSE rows[i].qid, editions |-> <<>>,
     description |-> IF rows[i].described THEN Id(rows[i]) ELSE Nothing,
     change |-> Nothing]]

\* Faulty: the list of editions is not begun with the representative.
AddPageAlone(result, page) ==
  IF \A i \in DOMAIN result : Key(result[i]) # Key(page)
  THEN Append(result, page)
  ELSE LET i == CHOOSE i \in DOMAIN result : Key(result[i]) = Key(page)
       IN [result EXCEPT ![i].editions = Append(@, Edition(page))]

\* One round of the loop of _deduplicate_by_qid.
AddPage(result, page) ==
  IF \A i \in DOMAIN result : Key(result[i]) # Key(page)
  THEN Append(result, page)
  ELSE LET i == CHOOSE i \in DOMAIN result : Key(result[i]) = Key(page)
           old == result[i].editions
       IN [result EXCEPT ![i].editions =
             Append(IF old = <<>> THEN <<Edition(result[i])>> ELSE old, Edition(page))]

Deduplicate(all) ==
  LET upTo[i \in 0..Len(all)] == IF i = 0 THEN <<>> ELSE AddPage(upTo[i - 1], all[i])
  IN upTo[Len(all)]

\* Wikidata's Korean description of the Q-id, for pages that have none.
InKorean(all, korean) ==
  [i \in DOMAIN all |->
    IF all[i].description = Nothing /\ all[i].qid \in korean
    THEN [all[i] EXCEPT !.description = <<all[i].qid>>]
    ELSE all[i]]

\* yesterday_rank: where a title was, on any wiki; the last of its places.
PlacesOf(yesterday, title) == {i \in DOMAIN yesterday : yesterday[i].title = title}

\* rank_change of every candidate; Nothing makes it a new one.
Ranked(all, yesterday) ==
  [i \in DOMAIN all |->
    LET before == PlacesOf(yesterday, all[i].title)
    IN [all[i] EXCEPT !.change = IF before = {} THEN Nothing ELSE <<Max(before) - i>>]]

\* Faulty: the ranks are given before the pages are merged.
MergedAfterRanking(rows, korean, yesterday) == InKorean(Deduplicate(Ranked(rows, yesterday)), korean)

\* The order in which the list is worked on.
Candidates(rows, korean, yesterday) == Ranked(InKorean(Deduplicate(rows), korean), yesterday)

\* A query that fails leaves no pages, or no ranks.
Fetch ==
  /\ stage = "fetching" /\ stage' = "asking"
  /\ \E rows \in Rows \cup {<<>>}, yesterday \in Yesterdays, known \in BOOLEAN :
       \E unknown \in SUBSET DOMAIN rows, korean \in SUBSET {rows[i].qid : i \in DOMAIN rows} :
         LET all == Pages(rows, unknown)
         IN /\ asked' = [rows |-> all, yesterday |-> yesterday, known |-> known]
            /\ pages' = Candidates(all, korean \ {NoQid}, IF known THEN yesterday ELSE <<>>)
  /\ candidates' = pages'
  /\ UNCHANGED <<news, answer, post>>

-----------------------------------------------------------------------------
(* build_report. *)

\* Faulty: nothing is cut.
Uncut(s, n) == s

\* s[:n]
AtMost(s, n) == SubSeq(s, 1, IF Len(s) < n THEN Len(s) ELSE n)

\* The indices that are those of one of n pages.
InRange(n, indices) ==
  LET upTo[i \in 0..Len(indices)] ==
        IF i = 0 THEN <<>>
        ELSE IF 0 <= indices[i] /\ indices[i] < n
        THEN Append(upTo[i - 1], indices[i])
        ELSE upTo[i - 1]
  IN upTo[Len(indices)]

\* Claude's descriptions, by the index that the page had in the prompt.
Described(all, described) ==
  [i \in DOMAIN all |->
    IF all[i].description = Nothing /\ i - 1 \in described /\ i \in DOMAIN candidates
    THEN [all[i] EXCEPT !.description = Id(candidates[i])]
    ELSE all[i]]

\* Faulty: the pages keep the order of the candidates.
ChosenInOrder(all, selected) ==
  LET picked == SelectSeq([i \in DOMAIN all |-> i - 1], LAMBDA i : i \in ToSet(selected))
  IN IF picked # <<>>
     THEN AtMost([i \in DOMAIN picked |-> all[picked[i] + 1]], Shown)
     ELSE AtMost(all, Shown)

\* The pages that Claude selected, or the first ones when none of its indices is in range.
Chosen(all, selected) ==
  LET valid == AtMost(InRange(Len(all), selected), Shown)
  IN IF valid # <<>>
     THEN [i \in DOMAIN valid |-> all[valid[i] + 1]]
     ELSE AtMost(all, Shown)

Applied(all, a) == Chosen(Described(all, a.described), a.selected)

Ask ==
  /\ stage = "asking" /\ stage' = "built"
  /\ \E a \in Answers \cup {NoJson} :
       /\ answer' = a
       /\ pages' = Applied(pages, a)
  /\ UNCHANGED <<news, asked, candidates, post>>

\* Claude's API raises, or the answer's JSON does; or its keywords are no lists of texts.
Raises ==
  /\ stage \in {"asking", "built"} /\ stage' = "raised"
  /\ UNCHANGED <<pages, news, answer, asked, candidates, post>>

-----------------------------------------------------------------------------
(* The news, and the post. *)

\* The keywords come in the order of Claude's indices; a page without any is searched for
\* by its label.
News(all, a) ==
  [i \in DOMAIN AtMost(all, NewsPages) |->
    IF i > a.keywords THEN Id(all[i])
    ELSE IF i \in DOMAIN a.selected /\ a.selected[i] + 1 \in DOMAIN candidates
    THEN Id(candidates[a.selected[i] + 1])
    ELSE Nothing]

FetchNews ==
  /\ stage = "built" /\ stage' = "saved"
  /\ news' = News(pages, answer)
  /\ UNCHANGED <<pages, answer, asked, candidates, post>>

\* The edits that are shown for a page.
Total(page) ==
  IF page.editions = <<>> THEN page.edits
  ELSE SumTo([i \in DOMAIN page.editions |-> page.editions[i].edits], Len(page.editions))

\* What a post shows of a page.
Entry(page) ==
  [id |-> Id(page), key |-> Key(page), edits |-> Total(page), change |-> page.change,
   description |-> page.description]

\* _build_top5_blocks, the file in between.
Publish ==
  /\ stage = "saved" /\ stage' = "published"
  /\ post' = [i \in DOMAIN AtMost(pages, Shown) |-> Entry(pages[i])]
  /\ UNCHANGED <<pages, news, answer, asked, candidates>>

\* The report is posted, or there is none today.
Done == stage \in {"published", "raised"} /\ UNCHANGED contentVars

ContentNext ==
  \/ Fetch
  \/ Ask
  \/ Raises
  \/ FetchNews
  \/ Publish
  \/ Done

ContentSpec == ContentInit /\ [][ContentNext]_contentVars

-----------------------------------------------------------------------------
(* Properties. *)

Ids == Servers \X Titles
TopicKeys == Ids \cup {<<q>> : q \in Qids}
Texts == TopicKeys \cup {Nothing}

Page == [server : Servers, title : Titles, edits : Nat, qid : Qids \cup {NoQid},
         editions : Seq([server : Servers, edits : Nat]), description : Texts, change : Seq(Int)]

\* Types: the report and its post have at most Shown pages, and the post has all of them.
ContentTypeOK ==
  /\ stage \in {"fetching", "asking", "built", "saved", "published", "raised"}
  /\ pages \in Seq(Page) /\ candidates \in Seq(Page)
  /\ news \in Seq(Ids \cup {Nothing})
  /\ answer \in Answers \cup {NoJson}
  /\ asked \in [rows : Seq(Page), yesterday : Yesterdays \cup {<<>>}, known : BOOLEAN]
  /\ post \in Seq([id : Ids, key : TopicKeys, edits : Nat, change : Seq(Int), description : Texts])
  /\ stage \in {"built", "saved", "published"} => Len(pages) <= Shown
  /\ Len(news) <= NewsPages
  /\ stage = "published" => Len(post) = Len(pages)

\* The edits of the rows that have a key.
EditsOf(rows, key) == [j \in DOMAIN rows |-> IF Key(rows[j]) = key THEN rows[j].edits ELSE 0]

AddsUp(entry, rows) == entry.edits = SumTo(EditsOf(rows, entry.key), Len(rows))

\* The edits that are published for a page are those of all rows of its topic, each counted
\* once: the representative's own, those of its other languages, and those of the same page
\* under another label.
EditionsAddUp == \A i \in DOMAIN post : AddsUp(post[i], asked.rows)

OfItsPage(entry) == entry.description \in {Nothing, entry.id, entry.key}

\* Claude sent indices of pages only, and gave keywords for no others.
ValidAnswer ==
  /\ InRange(Len(candidates), answer.selected) = answer.selected
  /\ answer.keywords <= Len(answer.selected)

\* What Claude gives by position stays with its page, across the selection, the cut to the
\* number shown and the fallback: a description is of the page that it stands under, or of
\* its Q-id; and if every index that Claude sent is one of a page, and it gave keywords for
\* no others, the news are about the first pages that are shown.
TextsOfTheirPages ==
  /\ \A i \in DOMAIN post : OfItsPage(post[i])
  /\ stage \in {"saved", "published"} /\ ValidAnswer
       => news = [i \in DOMAIN AtMost(pages, NewsPages) |-> Id(pages[i])]

KeysTo(rows, n) == {Key(rows[j]) : j \in 1..n}

TrueBadge(entry, question) ==
  LET rows == question.rows
      yesterday == question.yesterday
      titles == [j \in DOMAIN yesterday |-> yesterday[j].title]
      before == {j \in DOMAIN yesterday : Id(yesterday[j]) = entry.id}
      first == Min({j \in DOMAIN rows : Key(rows[j]) = entry.key})
      today == Cardinality(KeysTo(rows, first))
  IN (question.known /\ IsInjective(titles) /\ PlacesOf(yesterday, entry.id[2]) = before) =>
       entry.change = IF before = {} THEN Nothing ELSE <<Max(before) - today>>

\* The badge of a page says how it moved from its place in yesterday's rows to the place of
\* its topic among those of today, whatever place it has in the post, if no two of
\* yesterday's rows have one title and the page's title was not another wiki's there.
BadgesAreTrue == \A i \in DOMAIN post : TrueBadge(post[i], asked)

-----------------------------------------------------------------------------
(* The inductive invariant. *)

\* Nothing is known before the stage that finds it out.
NotYet ==
  /\ stage = "fetching" => pages = <<>>
  /\ stage = "asking" => pages = candidates
  /\ stage # "published" => post = <<>>

\* The report is right about its pages from the first, in whatever order they are.
PagesAreRight ==
  \A i \in DOMAIN pages :
    LET entry == Entry(pages[i])
    IN AddsUp(entry, asked.rows) /\ OfItsPage(entry) /\ TrueBadge(entry, asked)

\* The first pages are those that Claude selected, as long as there are keywords for them.
SelectedComeFirst ==
  stage \in {"built", "saved", "published"} /\ ValidAnswer =>
    \A i \in DOMAIN pages :
      i <= answer.keywords =>
        /\ answer.selected[i] + 1 \in DOMAIN candidates
        /\ Id(pages[i]) = Id(candidates[answer.selected[i] + 1])

ContentIInv ==
  /\ ContentTypeOK
  /\ EditionsAddUp
  /\ TextsOfTheirPages
  /\ BadgesAreTrue
  /\ NotYet
  /\ PagesAreRight
  /\ SelectedComeFirst
================================================================================
