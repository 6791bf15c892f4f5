------------------------ MODULE SyncExchange_proofs ------------------------
(***************************************************************************)
(* The safety properties of SyncExchange, and that it implements           *)
(* FactReplication, for every set of replicas, facts and sessions and      *)
(* every page size.                                                        *)
(***************************************************************************)
EXTENDS SyncExchange, TLAPS

\* A page fits a log and a receipt when it is a piece of the log and begins no
\* later than the receipt.
Fits(page, journal, position) ==
  /\ Through(page) <= Len(journal)
  /\ \A i \in 1 .. Len(page.records) :
       page.records[i] = journal[page.after + i]
  /\ page.after <= position

\* Every page on the wire fits its sender's log and its receiver's receipt.
PagesMatch ==
  \A s \in Session :
    /\ Fits(out[s], log[Client[s]], receipt[Server[s]][Client[s]])
    /\ Fits(back[s], log[Server[s]], receipt[Client[s]][Server[s]])

\* A reported position never exceeds the receipt it was read from.
CursorsMatch ==
  \A s \in Session :
    /\ phase[s] \in {"welcome", "reply", "ingested"} =>
         cursor[s] <= receipt[Server[s]][Client[s]]
    /\ phase[s] \in {"turn", "ack"} =>
         cursor[s] <= receipt[Client[s]][Server[s]]

IInv ==
  /\ TypeOK
  /\ ReceiptCovers
  /\ AcknowledgedIsReceived
  /\ PagesMatch
  /\ CursorsMatch

---------------------------------------------------------------------------
\* The facts a page adds are exactly its unseen ones.
LEMMA FirstSeenAdds ==
  ASSUME NEW r \in Replica, NEW page \in Page, TypeOK,
         NEW fresh \in FirstSeen(r, page)
  PROVE  /\ fresh \in Seq(Fact)
         /\ Range(fresh) = Range(page.records) \ Range(log[r])
<1> DEFINE unseen == Range(page.records) \ Range(log[r])
<1>1. page.records \in Seq(Fact)
  BY DEF Page
<1>2. unseen \subseteq Fact
  BY <1>1 DEF Range
<1>3. PICK n \in 0 .. Len(page.records) : fresh \in [1 .. n -> unseen]
  BY DEF FirstSeen
<1>4. n \in Nat
  BY <1>1
<1>5. fresh \in Seq(Fact)
  BY <1>2, <1>3, <1>4
<1>6. Range(fresh) = unseen
  BY DEF FirstSeen
<1> QED BY <1>5, <1>6

\* Appending keeps every earlier position and adds the appended facts.
LEMMA ConcatRange ==
  ASSUME NEW a \in Seq(Fact), NEW b \in Seq(Fact)
  PROVE  /\ a \o b \in Seq(Fact)
         /\ Len(a \o b) = Len(a) + Len(b)
         /\ \A i \in 1 .. Len(a) : (a \o b)[i] = a[i]
         /\ Range(a \o b) = Range(a) \cup Range(b)
<1>1. /\ a \o b \in Seq(Fact)
      /\ Len(a \o b) = Len(a) + Len(b)
      /\ \A i \in 1 .. Len(a) : (a \o b)[i] = a[i]
  OBVIOUS
<1>2. \A i \in 1 .. Len(b) : (a \o b)[Len(a) + i] = b[i]
  OBVIOUS
<1>3. \A i \in 1 .. Len(a) + Len(b) :
        \/ i \in 1 .. Len(a)
        \/ \E j \in 1 .. Len(b) : i = Len(a) + j
  <2> TAKE i \in 1 .. Len(a) + Len(b)
  <2>1. CASE i <= Len(a)
    BY <2>1
  <2>2. CASE i > Len(a)
    <3>1. i - Len(a) \in 1 .. Len(b) /\ i = Len(a) + (i - Len(a))
      BY <2>2
    <3> QED BY <3>1
  <2> QED BY <2>1, <2>2
<1>4. Range(a \o b) \subseteq Range(a) \cup Range(b)
  BY <1>1, <1>2, <1>3 DEF Range
<1>5. Range(a) \subseteq Range(a \o b)
  BY <1>1 DEF Range
<1>6. Range(b) \subseteq Range(a \o b)
  <2> SUFFICES ASSUME NEW j \in 1 .. Len(b)
               PROVE  b[j] \in Range(a \o b)
    BY DEF Range
  <2>1. Len(a) + j \in 1 .. Len(a \o b)
    BY <1>1
  <2> QED BY <1>1, <1>2, <2>1 DEF Range
<1> QED BY <1>1, <1>4, <1>5, <1>6

\* A page read by batch matches the log it was read from.
LEMMA BatchMatches ==
  ASSUME TypeOK, NEW p \in Replica, NEW after \in Nat,
         after <= Len(log[p]), NEW page \in Batches(p, after)
  PROVE  /\ page \in Page
         /\ page.after = after
         /\ Through(page) <= Len(log[p])
         /\ \A i \in 1 .. Len(page.records) :
              page.records[i] = log[p][after + i]
<1> DEFINE rest == Len(log[p]) - after
<1>1. log[p] \in Seq(Fact) /\ rest \in Nat
  BY DEF TypeOK
<1>2. PICK n \in PageLengths(rest) :
        page = [after   |-> after,
                records |-> SubSeq(log[p], after + 1, after + n),
                dead    |-> Range(SubSeq(log[p], after + 1, after + n)) \ live[p]]
  BY DEF Batches
<1>3. n \in Nat /\ n <= rest
  BY <1>1, <1>2, PageAssumption DEF PageLengths
<1> DEFINE piece == SubSeq(log[p], after + 1, after + n)
<1>4. /\ piece \in Seq(Fact)
      /\ Len(piece) = n
      /\ \A i \in 1 .. n : piece[i] = log[p][after + i]
  BY <1>1, <1>3
<1>5. Range(piece) \subseteq Fact
  BY <1>4 DEF Range
<1> QED BY <1>1, <1>2, <1>3, <1>4, <1>5 DEF Page, Through

---------------------------------------------------------------------------
\* Logs only grow at the end, and receipts only grow.
Grows ==
  /\ \A r \in Replica :
       /\ Len(log[r]) <= Len(log'[r])
       /\ \A i \in 1 .. Len(log[r]) : log'[r][i] = log[r][i]
  /\ \A r, p \in Replica : receipt[r][p] <= receipt'[r][p]

\* What fits a log and a receipt still fits them after they grew.
LEMMA FitsStable ==
  ASSUME TypeOK, TypeOK', Grows,
         NEW p \in Replica, NEW r \in Replica, NEW page \in Page,
         Fits(page, log[p], receipt[r][p])
  PROVE  Fits(page, log'[p], receipt'[r][p])
<1>1. /\ page.after \in Nat /\ page.records \in Seq(Fact)
      /\ log[p] \in Seq(Fact) /\ log'[p] \in Seq(Fact)
      /\ receipt[r][p] \in Nat /\ receipt'[r][p] \in Nat
  BY DEF TypeOK, Page
<1>2. \A i \in 1 .. Len(page.records) : page.after + i \in 1 .. Len(log[p])
  BY <1>1 DEF Fits, Through
<1>3. /\ Len(log[p]) <= Len(log'[p])
      /\ \A i \in 1 .. Len(log[p]) : log'[p][i] = log[p][i]
      /\ receipt[r][p] <= receipt'[r][p]
  BY DEF Grows
<1>4. Through(page) \in Nat /\ Len(log[p]) \in Nat /\ Len(log'[p]) \in Nat
  BY <1>1 DEF Through
<1>5. Through(page) <= Len(log'[p]) /\ page.after <= receipt'[r][p]
  BY <1>1, <1>3, <1>4 DEF Fits
<1>6. \A i \in 1 .. Len(page.records) :
        page.records[i] = log'[p][page.after + i]
  BY <1>2, <1>3 DEF Fits
<1> QED BY <1>5, <1>6 DEF Fits

\* Ingesting a page that fits covers the receipt it leaves.
LEMMA IngestCovers ==
  ASSUME TypeOK, ReceiptCovers, NEW r \in Replica, NEW p \in Replica,
         NEW page \in Page, Fits(page, log[p], receipt[r][p]),
         Ingest(r, p, page)
  PROVE  /\ log' \in [Replica -> Seq(Fact)]
         /\ live' \in [Replica -> SUBSET Fact]
         /\ receipt' \in [Replica -> [Replica -> Nat]]
         /\ Grows
         /\ ReceiptCovers'
<1>1. PICK fresh \in FirstSeen(r, page) :
        log' = [log EXCEPT ![r] = @ \o fresh]
  BY DEF Ingest
<1>2. /\ fresh \in Seq(Fact)
      /\ Range(fresh) = Range(page.records) \ Range(log[r])
  BY FirstSeenAdds
<1>3. /\ log \in [Replica -> Seq(Fact)] /\ log[r] \in Seq(Fact)
      /\ page.after \in Nat /\ page.records \in Seq(Fact)
      /\ Through(page) \in Nat
  BY DEF TypeOK, Page, Through
<1>4. /\ log'[r] \in Seq(Fact)
      /\ Len(log'[r]) = Len(log[r]) + Len(fresh)
      /\ \A i \in 1 .. Len(log[r]) : log'[r][i] = log[r][i]
      /\ Range(log'[r]) = Range(log[r]) \cup Range(page.records)
  <2>1. log'[r] = log[r] \o fresh
    BY <1>1, <1>3
  <2> QED BY <1>2, <1>3, <2>1, ConcatRange
<1>5. \A q \in Replica : q # r => log'[q] = log[q]
  BY <1>1, <1>3
<1>6. log' \in [Replica -> Seq(Fact)]
  BY <1>1, <1>3, <1>4, <1>5
<1>7. Range(page.records) \subseteq Fact
  BY <1>3 DEF Range
<1>8. live' \in [Replica -> SUBSET Fact]
  BY <1>7 DEF Ingest, LiveAfter, TypeOK
<1>9. /\ receipt' \in [Replica -> [Replica -> Nat]]
      /\ \A a, b \in Replica : receipt[a][b] <= receipt'[a][b]
      /\ \A a, b \in Replica :
           receipt'[a][b] # receipt[a][b] =>
             a = r /\ b = p /\ receipt'[a][b] = Through(page)
  <2> DEFINE new == IF Through(page) > receipt[r][p]
                    THEN Through(page) ELSE receipt[r][p]
  <2>1. receipt \in [Replica -> [Replica -> Nat]]
    BY DEF TypeOK
  <2>2. receipt' = [receipt EXCEPT ![r][p] = new]
    BY DEF Ingest
  <2>3. new \in Nat /\ receipt[r][p] <= new
        /\ (new # receipt[r][p] => new = Through(page))
    BY <2>1, <1>3
  <2>4. receipt' \in [Replica -> [Replica -> Nat]]
    BY <2>1, <2>2, <2>3
  <2>5. \A a, b \in Replica :
          receipt'[a][b] = IF a = r /\ b = p THEN new ELSE receipt[a][b]
    BY <2>1, <2>2
  <2>6. \A a, b \in Replica : receipt[a][b] \in Nat
    BY <2>1
  <2> HIDE DEF new
  <2>7. \A a, b \in Replica : receipt[a][b] <= receipt'[a][b]
    BY <2>3, <2>5, <2>6
  <2>8. \A a, b \in Replica :
          receipt'[a][b] # receipt[a][b] =>
            a = r /\ b = p /\ receipt'[a][b] = Through(page)
    BY <2>3, <2>5
  <2> QED BY <2>4, <2>7, <2>8
<1>10. \A q \in Replica :
         /\ Len(log[q]) <= Len(log'[q])
         /\ \A i \in 1 .. Len(log[q]) : log'[q][i] = log[q][i]
         /\ Range(log[q]) \subseteq Range(log'[q])
  <2> TAKE q \in Replica
  <2>1. CASE q = r
    BY <2>1, <1>2, <1>3, <1>4
  <2>2. CASE q # r
    <3>1. log'[q] = log[q] /\ log[q] \in Seq(Fact)
      BY <2>2, <1>3, <1>5
    <3> QED BY <3>1
  <2> QED BY <2>1, <2>2
<1>11. Grows
  BY <1>9, <1>10 DEF Grows
<1>12. ReceiptCovers'
  <2> SUFFICES ASSUME NEW a \in Replica, NEW b \in Replica
               PROVE  /\ receipt'[a][b] <= Len(log'[b])
                      /\ \A i \in 1 .. receipt'[a][b] :
                           log'[b][i] \in Range(log'[a])
    BY DEF ReceiptCovers
  <2>1. /\ log[b] \in Seq(Fact) /\ log'[b] \in Seq(Fact)
        /\ receipt[a][b] \in Nat /\ receipt'[a][b] \in Nat
    BY <1>6, <1>9 DEF TypeOK
  <2>2. /\ receipt[a][b] <= Len(log'[b])
        /\ \A i \in 1 .. receipt[a][b] : log'[b][i] \in Range(log'[a])
    <3>1. /\ receipt[a][b] <= Len(log[b])
          /\ \A i \in 1 .. receipt[a][b] : log[b][i] \in Range(log[a])
      BY DEF ReceiptCovers
    <3>2. /\ Len(log[b]) <= Len(log'[b])
          /\ \A i \in 1 .. Len(log[b]) : log'[b][i] = log[b][i]
          /\ Range(log[a]) \subseteq Range(log'[a])
      BY <1>10
    <3>3. /\ Len(log[b]) \in Nat /\ Len(log'[b]) \in Nat
      BY <2>1
    <3>4. \A i \in 1 .. receipt[a][b] : i \in 1 .. Len(log[b])
      BY <3>1, <3>3, <2>1
    <3> QED BY <3>1, <3>2, <3>3, <3>4, <2>1
  <2>3. CASE receipt'[a][b] = receipt[a][b]
    BY <2>2, <2>3
  <2>4. CASE receipt'[a][b] # receipt[a][b]
    <3>1. a = r /\ b = p /\ receipt'[a][b] = Through(page)
      BY <2>4, <1>9
    <3>2. receipt'[a][b] <= Len(log'[b])
      BY <3>1, <2>1, <1>3, <1>10 DEF Fits
    <3>3. ASSUME NEW i \in 1 .. receipt'[a][b]
          PROVE  log'[b][i] \in Range(log'[a])
      <4>1. CASE i <= page.after
        <5>1. i \in 1 .. receipt[a][b]
          BY <3>1, <4>1, <2>1, <1>3 DEF Fits
        <5> QED BY <5>1, <2>2
      <4>2. CASE i > page.after
        <5> DEFINE k == i - page.after
        <5>1. k \in 1 .. Len(page.records) /\ i = page.after + k
          BY <3>1, <4>2, <1>3 DEF Through
        <5>2. i \in 1 .. Len(log[b]) /\ log[b][i] = page.records[k]
          BY <3>1, <5>1, <1>3, <2>1 DEF Fits, Through
        <5>3. page.records[k] \in Range(page.records)
          BY <5>1, <1>3 DEF Range
        <5> QED BY <3>1, <5>2, <5>3, <1>4, <1>10
      <4> QED BY <4>1, <4>2, <1>3, <3>1
    <3> QED BY <3>2, <3>3
  <2> QED BY <2>3, <2>4
<1> QED BY <1>6, <1>8, <1>9, <1>11, <1>12

---------------------------------------------------------------------------
\* What a step does to the pages and positions of each session: it keeps
\* them, drops them, or puts something on the wire that its sender's journal
\* supports after the step.
PagesStep ==
  \A s \in Session :
    /\ \/ out'[s] \in {out[s], NoPage}
       \/ Fits(out'[s], log'[Client[s]], receipt'[Server[s]][Client[s]])
    /\ \/ back'[s] \in {back[s], NoPage}
       \/ Fits(back'[s], log'[Server[s]], receipt'[Client[s]][Server[s]])

CursorsStep ==
  \A s \in Session :
    \/ phase'[s] = phase[s] /\ cursor'[s] = cursor[s]
    \/ /\ phase'[s] \in {"welcome", "reply", "ingested"} =>
            cursor'[s] <= receipt'[Server[s]][Client[s]]
       /\ phase'[s] \in {"turn", "ack"} =>
            cursor'[s] <= receipt'[Client[s]][Server[s]]

\* No journal changes.
Same ==
  /\ log' = log
  /\ receipt' = receipt

\* The absent page fits every log and receipt.
LEMMA NoPageFits ==
  ASSUME TypeOK, NEW p \in Replica, NEW r \in Replica
  PROVE  NoPage \in Page /\ Fits(NoPage, log[p], receipt[r][p])
<1>1. /\ log[p] \in Seq(Fact)
      /\ receipt[r][p] \in Nat
  BY DEF TypeOK
<1>2. Len(log[p]) \in Nat /\ Len(log[p]) >= 0
  BY <1>1
<1>3. NoPage.after = 0 /\ NoPage.records = <<>> /\ NoPage.dead = {}
  BY DEF NoPage
<1>4. <<>> \in Seq(Fact) /\ Len(<<>>) = 0
  OBVIOUS
<1>5. NoPage \in Page
  BY <1>4 DEF NoPage, Page
<1>6. Through(NoPage) = 0 /\ Len(NoPage.records) = 0
  BY <1>3, <1>4 DEF Through
<1>7. \A i \in 1 .. Len(NoPage.records) : FALSE
  BY <1>6
<1> QED BY <1>1, <1>2, <1>3, <1>5, <1>6, <1>7 DEF Fits

\* Both ends of a session are replicas.
LEMMA Ends == \A s \in Session : Client[s] \in Replica /\ Server[s] \in Replica
  BY EndsAssumption

\* Journals that stay the same have not shrunk.
LEMMA SameGrows == ASSUME TypeOK, Same PROVE Grows
<1>1. /\ \A r \in Replica : Len(log[r]) \in Nat
      /\ \A r, p \in Replica : receipt[r][p] \in Nat
  BY DEF TypeOK
<1> QED BY <1>1 DEF Same, Grows

\* Pages on the wire still match after the journals grew.
LEMMA PagesMatchStep ==
  ASSUME TypeOK, PagesMatch, TypeOK', Grows, PagesStep
  PROVE  PagesMatch'
<1> SUFFICES ASSUME NEW s \in Session
             PROVE  /\ Fits(out'[s], log'[Client[s]],
                            receipt'[Server[s]][Client[s]])
                    /\ Fits(back'[s], log'[Server[s]],
                            receipt'[Client[s]][Server[s]])
  BY DEF PagesMatch
<1>1. Client[s] \in Replica /\ Server[s] \in Replica
  BY Ends
<1>2. out[s] \in Page /\ back[s] \in Page
  BY DEF TypeOK
<1>3. /\ Fits(out[s], log[Client[s]], receipt[Server[s]][Client[s]])
      /\ Fits(back[s], log[Server[s]], receipt[Client[s]][Server[s]])
  BY DEF PagesMatch
<1>4. /\ Fits(out[s], log'[Client[s]], receipt'[Server[s]][Client[s]])
      /\ Fits(NoPage, log'[Client[s]], receipt'[Server[s]][Client[s]])
  BY <1>1, <1>2, <1>3, FitsStable, NoPageFits
<1>5. /\ Fits(back[s], log'[Server[s]], receipt'[Client[s]][Server[s]])
      /\ Fits(NoPage, log'[Server[s]], receipt'[Client[s]][Server[s]])
  BY <1>1, <1>2, <1>3, FitsStable, NoPageFits
<1> QED BY <1>4, <1>5 DEF PagesStep

\* Cursors on the wire are still true after the receipts grew.
LEMMA CursorsMatchStep ==
  ASSUME TypeOK, CursorsMatch, TypeOK', Grows, CursorsStep
  PROVE  CursorsMatch'
<1> SUFFICES ASSUME NEW s \in Session
             PROVE  /\ phase'[s] \in {"welcome", "reply", "ingested"} =>
                         cursor'[s] <= receipt'[Server[s]][Client[s]]
                    /\ phase'[s] \in {"turn", "ack"} =>
                         cursor'[s] <= receipt'[Client[s]][Server[s]]
  BY DEF CursorsMatch
<1>1. /\ Client[s] \in Replica /\ Server[s] \in Replica
      /\ cursor[s] \in Nat
      /\ receipt[Server[s]][Client[s]] \in Nat
      /\ receipt[Client[s]][Server[s]] \in Nat
      /\ receipt'[Server[s]][Client[s]] \in Nat
      /\ receipt'[Client[s]][Server[s]] \in Nat
  <2>1. Client[s] \in Replica /\ Server[s] \in Replica
    BY Ends
  <2>2. /\ cursor \in [Session -> Nat]
        /\ receipt \in [Replica -> [Replica -> Nat]]
        /\ receipt' \in [Replica -> [Replica -> Nat]]
    BY DEF TypeOK
  <2> QED BY <2>1, <2>2
<1>2. /\ receipt[Server[s]][Client[s]] <= receipt'[Server[s]][Client[s]]
      /\ receipt[Client[s]][Server[s]] <= receipt'[Client[s]][Server[s]]
  BY <1>1 DEF Grows
<1>3. CASE phase'[s] = phase[s] /\ cursor'[s] = cursor[s]
  BY <1>1, <1>2, <1>3 DEF CursorsMatch
<1>4. CASE ~(phase'[s] = phase[s] /\ cursor'[s] = cursor[s])
  BY <1>4 DEF CursorsStep
<1> QED BY <1>3, <1>4

\* A session step that leaves the logs and receipts alone.
LEMMA QuietStep ==
  ASSUME IInv, TypeOK', Same, UNCHANGED sent, PagesStep, CursorsStep
  PROVE  IInv'
<1>1. Grows
  BY SameGrows DEF IInv
<1>2. ReceiptCovers' /\ AcknowledgedIsReceived'
  BY DEF IInv, Same, ReceiptCovers, AcknowledgedIsReceived
<1>3. PagesMatch' /\ CursorsMatch'
  BY <1>1, PagesMatchStep, CursorsMatchStep DEF IInv
<1> QED BY <1>2, <1>3 DEF IInv

---------------------------------------------------------------------------
SessionsOK ==
  /\ phase \in [Session -> Phase]
  /\ cursor \in [Session -> Nat]
  /\ out \in [Session -> Page]
  /\ back \in [Session -> Page]

JournalsOK ==
  /\ log \in [Replica -> Seq(Fact)]
  /\ live \in [Replica -> SUBSET Fact]
  /\ receipt \in [Replica -> [Replica -> Nat]]
  /\ sent \in [Replica -> [Replica -> Nat]]

DropsOK == drops \in 0 .. MaxDrops

\* The types of journals, sessions and drops together.
LEMMA TypeParts ==
  ASSUME JournalsOK', SessionsOK', DropsOK' PROVE TypeOK'
  BY DEF TypeOK, JournalsOK, SessionsOK, DropsOK

\* A step that loses no connection keeps the bound on drops.
LEMMA SameDrops == ASSUME TypeOK, UNCHANGED drops PROVE DropsOK'
  BY DEF TypeOK, DropsOK

\* The absent page is a page.
LEMMA NoPageIsPage == NoPage \in Page
<1>1. <<>> \in Seq(Fact) /\ {} \in SUBSET Fact /\ 0 \in Nat
  OBVIOUS
<1> QED BY <1>1 DEF NoPage, Page

\* Giving a connection up puts nothing on the wire.
LEMMA AbandonStep ==
  ASSUME TypeOK, NEW s \in Session, Abandon(s)
  PROVE  SessionsOK' /\ PagesStep /\ CursorsStep
<1>1. SessionsOK'
  BY NoPageIsPage DEF Abandon, Goto, SessionsOK, TypeOK, Phase
<1>2. PagesStep
  BY DEF Abandon, PagesStep, TypeOK
<1>3. CursorsStep
  <2>1. phase'[s] = "idle"
    BY DEF Abandon, Goto, TypeOK
  <2>2. \A t \in Session : t # s => phase'[t] = phase[t] /\ cursor'[t] = cursor[t]
    BY DEF Abandon, Goto, TypeOK
  <2> QED BY <2>1, <2>2 DEF CursorsStep
<1> QED BY <1>1, <1>2, <1>3

\* A step that leaves the journals alone keeps their types and contents.
LEMMA SameJournals ==
  ASSUME TypeOK, UNCHANGED journals
  PROVE  JournalsOK' /\ Same /\ UNCHANGED sent
  BY DEF TypeOK, JournalsOK, journals, Same

\* A greeting carries nothing that has to match.
LEMMA ClientHelloStep ==
  ASSUME IInv, NEW s \in Session, ClientHello(s)
  PROVE  IInv'
<1> USE DEF IInv
<1>1. SessionsOK' /\ PagesStep /\ CursorsStep
  BY DEF ClientHello, Goto, SessionsOK, PagesStep, CursorsStep, TypeOK, Phase
<1>2. UNCHANGED journals /\ UNCHANGED drops
  BY DEF ClientHello
<1>3. TypeOK'
  BY <1>1, <1>2, SameJournals, SameDrops, TypeParts
<1> QED BY <1>1, <1>2, <1>3, SameJournals, QuietStep

\* The three steps that report a receipt read it from the journal as it is.
LEMMA ReportStep ==
  ASSUME IInv, NEW s \in Session, NEW r \in Replica, NEW p \in Replica,
         NEW next \in Phase,
         \/ next \in {"welcome", "reply"} /\ r = Server[s] /\ p = Client[s]
         \/ next \in {"turn", "ack"} /\ r = Client[s] /\ p = Server[s],
         cursor' = [cursor EXCEPT ![s] = receipt[r][p]], Goto(s, next),
         UNCHANGED <<journals, out, back, drops>>
  PROVE  IInv'
<1> USE DEF IInv
<1>1. receipt[r][p] \in Nat
  BY DEF TypeOK
<1>2. SessionsOK'
  BY <1>1 DEF Goto, SessionsOK, TypeOK
<1>3. PagesStep
  BY DEF PagesStep
<1>4. JournalsOK' /\ Same /\ UNCHANGED sent
  BY SameJournals
<1>5. TypeOK'
  BY <1>2, <1>4, SameDrops, TypeParts
<1>6. CursorsStep
  <2> SUFFICES ASSUME NEW t \in Session
               PROVE  \/ phase'[t] = phase[t] /\ cursor'[t] = cursor[t]
                      \/ /\ phase'[t] \in {"welcome", "reply", "ingested"} =>
                              cursor'[t] <= receipt'[Server[t]][Client[t]]
                         /\ phase'[t] \in {"turn", "ack"} =>
                              cursor'[t] <= receipt'[Client[t]][Server[t]]
    BY DEF CursorsStep
  <2>1. CASE t = s
    <3>1. cursor'[s] = receipt'[r][p] /\ phase'[s] = next
      BY <1>4 DEF Goto, TypeOK, Same
    <3>2. receipt'[r][p] <= receipt'[r][p]
      BY <1>1, <1>4 DEF Same
    <3> QED BY <2>1, <3>1, <3>2
  <2>2. CASE t # s
    BY <2>2 DEF Goto, TypeOK
  <2> QED BY <2>1, <2>2
<1> QED BY <1>3, <1>4, <1>5, <1>6, QuietStep

\* The server reports its receipt (serve_next).
LEMMA ServerWelcomeStep ==
  ASSUME IInv, NEW s \in Session, ServerWelcome(s) PROVE IInv'
  BY Ends, ReportStep DEF ServerWelcome, Phase

\* The client reports its receipt with its page.
LEMMA ClientTurnStep ==
  ASSUME IInv, NEW s \in Session, ClientTurn(s) PROVE IInv'
  BY Ends, ReportStep DEF ClientTurn, Phase

\* The server reports its receipt after it stored the page.
LEMMA ServerReplyStep ==
  ASSUME IInv, NEW s \in Session, ServerReply(s) PROVE IInv'
  BY Ends, ReportStep DEF ServerReply, Phase

\* The client reports its receipt at the end.
LEMMA ClientAckStep ==
  ASSUME IInv, NEW s \in Session, ClientAck(s) PROVE IInv'
  BY Ends, ReportStep DEF ClientAck, Phase

\* A page read from the position a peer reported fits that peer's receipt.
LEMMA PageRead ==
  ASSUME TypeOK, NEW p \in Replica, NEW r \in Replica, NEW after \in Nat,
         after <= receipt[r][p], CanBatch(p, after),
         NEW page \in Batches(p, after)
  PROVE  page \in Page /\ Fits(page, log[p], receipt[r][p])
  BY BatchMatches DEF Fits, CanBatch

\* The client reads a page that fits the receipt of the server.
LEMMA ClientBatchStep ==
  ASSUME IInv, NEW s \in Session, ClientBatch(s)
  PROVE  IInv'
<1> USE DEF IInv
<1>1. UNCHANGED journals /\ UNCHANGED drops
  BY DEF ClientBatch
<1>2. JournalsOK' /\ Same /\ UNCHANGED sent
  BY <1>1, SameJournals
<1>3. CASE Abandon(s)
  BY <1>1, <1>2, <1>3, AbandonStep, SameDrops, TypeParts, QuietStep
<1>4. CASE ~Abandon(s)
  <2>1. /\ phase[s] = "welcome"
        /\ CanBatch(Client[s], cursor[s])
        /\ Goto(s, "batched")
        /\ cursor' = [cursor EXCEPT ![s] = 0]
        /\ UNCHANGED back
    BY <1>4 DEF ClientBatch
  <2>2. PICK page \in Batches(Client[s], cursor[s]) :
          out' = [out EXCEPT ![s] = page]
    BY <1>4 DEF ClientBatch
  <2>3. page \in Page
        /\ Fits(page, log[Client[s]], receipt[Server[s]][Client[s]])
    <3>1. cursor[s] \in Nat /\ cursor[s] <= receipt[Server[s]][Client[s]]
      BY <2>1 DEF CursorsMatch, TypeOK
    <3> QED BY <2>1, <3>1, Ends, PageRead
  <2>4. SessionsOK'
    BY <2>1, <2>2, <2>3 DEF Goto, SessionsOK, TypeOK, Phase
  <2>5. PagesStep
    BY <1>2, <2>1, <2>2, <2>3 DEF PagesStep, TypeOK, Same
  <2>6. CursorsStep
    BY <2>1 DEF CursorsStep, Goto, TypeOK
  <2> QED BY <1>1, <1>2, <2>4, <2>5, <2>6, SameDrops, TypeParts, QuietStep
<1> QED BY <1>3, <1>4

\* The server reads a page that fits the receipt of the client.
LEMMA ServerBatchStep ==
  ASSUME IInv, NEW s \in Session, ServerBatch(s)
  PROVE  IInv'
<1> USE DEF IInv
<1>1. UNCHANGED journals /\ UNCHANGED drops
  BY DEF ServerBatch
<1>2. JournalsOK' /\ Same /\ UNCHANGED sent
  BY <1>1, SameJournals
<1>3. CASE Abandon(s)
  BY <1>1, <1>2, <1>3, AbandonStep, SameDrops, TypeParts, QuietStep
<1>4. CASE ~Abandon(s)
  <2>1. /\ phase[s] = "turn"
        /\ CanBatch(Server[s], cursor[s])
        /\ Goto(s, "captured")
        /\ cursor' = [cursor EXCEPT ![s] = 0]
        /\ UNCHANGED out
    BY <1>4 DEF ServerBatch
  <2>2. PICK page \in Batches(Server[s], cursor[s]) :
          back' = [back EXCEPT ![s] = page]
    BY <1>4 DEF ServerBatch
  <2>3. page \in Page
        /\ Fits(page, log[Server[s]], receipt[Client[s]][Server[s]])
    <3>1. cursor[s] \in Nat /\ cursor[s] <= receipt[Client[s]][Server[s]]
      BY <2>1 DEF CursorsMatch, TypeOK
    <3> QED BY <2>1, <3>1, Ends, PageRead
  <2>4. SessionsOK'
    BY <2>1, <2>2, <2>3 DEF Goto, SessionsOK, TypeOK, Phase
  <2>5. PagesStep
    BY <1>2, <2>1, <2>2, <2>3 DEF PagesStep, TypeOK, Same
  <2>6. CursorsStep
    BY <2>1 DEF CursorsStep, Goto, TypeOK
  <2> QED BY <1>1, <1>2, <2>4, <2>5, <2>6, SameDrops, TypeParts, QuietStep
<1> QED BY <1>3, <1>4

---------------------------------------------------------------------------
\* An ingested page: receipts grow, so acknowledgments stay received.
LEMMA IngestStep ==
  ASSUME IInv, NEW r \in Replica, NEW p \in Replica, NEW page \in Page,
         Fits(page, log[p], receipt[r][p]), Ingest(r, p, page),
         UNCHANGED <<sent, drops>>, SessionsOK', PagesStep,
         Grows => CursorsStep
  PROVE  IInv'
<1> USE DEF IInv
<1>1. /\ log' \in [Replica -> Seq(Fact)]
      /\ live' \in [Replica -> SUBSET Fact]
      /\ receipt' \in [Replica -> [Replica -> Nat]]
      /\ Grows
      /\ ReceiptCovers'
  BY IngestCovers
<1>2. JournalsOK'
  BY <1>1 DEF JournalsOK, TypeOK
<1>3. TypeOK'
  BY <1>2, SameDrops, TypeParts
<1>4. AcknowledgedIsReceived'
  <2> SUFFICES ASSUME NEW a \in Replica, NEW b \in Replica
               PROVE  sent'[a][b] <= receipt'[b][a]
    BY DEF AcknowledgedIsReceived
  <2>1. /\ sent[a][b] \in Nat /\ sent'[a][b] = sent[a][b]
        /\ receipt[b][a] \in Nat /\ receipt'[b][a] \in Nat
    BY <1>1 DEF TypeOK
  <2>2. sent[a][b] <= receipt[b][a] /\ receipt[b][a] <= receipt'[b][a]
    BY <1>1 DEF AcknowledgedIsReceived, Grows
  <2> QED BY <2>1, <2>2
<1>5. PagesMatch' /\ CursorsMatch'
  BY <1>1, <1>3, PagesMatchStep, CursorsMatchStep
<1> QED BY <1>1, <1>3, <1>4, <1>5

\* The server stores the page of the client.
LEMMA ServerIngestStep ==
  ASSUME IInv, NEW s \in Session, ServerIngest(s)
  PROVE  IInv'
<1> USE DEF IInv
<1>1. CASE Abandon(s) /\ UNCHANGED <<log, live, receipt>>
  <2>1. UNCHANGED journals /\ UNCHANGED drops
    BY <1>1 DEF ServerIngest, journals
  <2>2. JournalsOK' /\ Same /\ UNCHANGED sent
    BY <2>1, SameJournals
  <2> QED BY <1>1, <2>1, <2>2, AbandonStep, SameDrops, TypeParts, QuietStep
<1>2. CASE ~(Abandon(s) /\ UNCHANGED <<log, live, receipt>>)
  <2>1. /\ Ingest(Server[s], Client[s], out[s])
        /\ Goto(s, "stored")
        /\ UNCHANGED <<cursor, out, back, sent, drops>>
    BY <1>2 DEF ServerIngest
  <2>2. out[s] \in Page
        /\ Fits(out[s], log[Client[s]], receipt[Server[s]][Client[s]])
    BY DEF TypeOK, PagesMatch
  <2>3. SessionsOK'
    BY <2>1 DEF Goto, SessionsOK, TypeOK, Phase
  <2>4. PagesStep
    BY <2>1 DEF PagesStep
  <2>5. CursorsStep
    BY <2>1 DEF CursorsStep, Goto, TypeOK
  <2> QED BY <2>1, <2>2, <2>3, <2>4, <2>5, Ends, IngestStep
<1> QED BY <1>1, <1>2

\* The client stores the page of the server.
LEMMA ClientIngestStep ==
  ASSUME IInv, NEW s \in Session, ClientIngest(s)
  PROVE  IInv'
<1> USE DEF IInv
<1>1. CASE Abandon(s) /\ UNCHANGED <<log, live, receipt>>
  <2>1. UNCHANGED journals /\ UNCHANGED drops
    BY <1>1 DEF ClientIngest, journals
  <2>2. JournalsOK' /\ Same /\ UNCHANGED sent
    BY <2>1, SameJournals
  <2> QED BY <1>1, <2>1, <2>2, AbandonStep, SameDrops, TypeParts, QuietStep
<1>2. CASE ~(Abandon(s) /\ UNCHANGED <<log, live, receipt>>)
  <2>1. /\ phase[s] = "reply"
        /\ Ingest(Client[s], Server[s], back[s])
        /\ Goto(s, "ingested")
        /\ out' = [out EXCEPT ![s] = NoPage]
        /\ UNCHANGED <<cursor, back, sent, drops>>
    BY <1>2 DEF ClientIngest
  <2>2. back[s] \in Page
        /\ Fits(back[s], log[Server[s]], receipt[Client[s]][Server[s]])
    BY DEF TypeOK, PagesMatch
  <2>3. SessionsOK'
    BY <2>1, NoPageIsPage DEF Goto, SessionsOK, TypeOK, Phase
  <2>4. PagesStep
    BY <2>1 DEF PagesStep, TypeOK
  <2>5. Client[s] \in Replica /\ Server[s] \in Replica
    BY Ends
  <2>6. ASSUME Grows PROVE CursorsStep
    <3>1. cursor[s] <= receipt[Server[s]][Client[s]] /\ cursor[s] \in Nat
      BY <2>1 DEF CursorsMatch, TypeOK
    <3>2. receipt[Server[s]][Client[s]] <= receipt'[Server[s]][Client[s]]
      BY <2>5, <2>6 DEF Grows
    <3>3. /\ receipt[Server[s]][Client[s]] \in Nat
          /\ receipt'[Server[s]][Client[s]] \in Nat
      BY <2>1, <2>2, <2>5, IngestCovers DEF TypeOK
    <3>4. cursor'[s] <= receipt'[Server[s]][Client[s]]
      BY <2>1, <3>1, <3>2, <3>3
    <3> QED BY <2>1, <3>4 DEF CursorsStep, Goto, TypeOK
  <2> QED BY <2>1, <2>2, <2>3, <2>4, <2>5, <2>6, IngestStep
<1> QED BY <1>1, <1>2

\* An accepted acknowledgment is a position the peer reported as received.
LEMMA AcknowledgeStep ==
  ASSUME IInv, NEW r \in Replica, NEW p \in Replica, NEW position \in Nat,
         position <= receipt[p][r], Acknowledge(r, p, position),
         UNCHANGED <<log, live, receipt, drops>>,
         SessionsOK', PagesStep, CursorsStep
  PROVE  IInv'
<1> USE DEF IInv
<1> DEFINE new == IF position > sent[r][p] THEN position ELSE sent[r][p]
<1>1. sent \in [Replica -> [Replica -> Nat]] /\ new \in Nat
  BY DEF TypeOK
<1>2. sent' = [sent EXCEPT ![r][p] = new]
  BY DEF Acknowledge
<1>3. sent' \in [Replica -> [Replica -> Nat]]
  BY <1>1, <1>2
<1>4. JournalsOK'
  BY <1>3 DEF JournalsOK, TypeOK
<1>5. TypeOK'
  BY <1>4, SameDrops, TypeParts
<1>6. Grows /\ ReceiptCovers'
  BY SameGrows DEF Same, ReceiptCovers
<1>7. new <= receipt[p][r]
  BY DEF AcknowledgedIsReceived
<1>8. \A a, b \in Replica :
        sent'[a][b] = IF a = r /\ b = p THEN new ELSE sent[a][b]
  BY <1>1, <1>2
<1> HIDE DEF new
<1>9. AcknowledgedIsReceived'
  BY <1>7, <1>8 DEF AcknowledgedIsReceived
<1>10. PagesMatch' /\ CursorsMatch'
  BY <1>5, <1>6, PagesMatchStep, CursorsMatchStep
<1> QED BY <1>5, <1>6, <1>9, <1>10

\* The client counts what the server reported.
LEMMA ClientAcknowledgeStep ==
  ASSUME IInv, NEW s \in Session, ClientAcknowledge(s)
  PROVE  IInv'
<1> USE DEF IInv
<1>1. CASE Abandon(s) /\ UNCHANGED sent
  <2>1. UNCHANGED journals /\ UNCHANGED drops
    BY <1>1 DEF ClientAcknowledge, journals
  <2>2. JournalsOK' /\ Same /\ UNCHANGED sent
    BY <2>1, SameJournals
  <2> QED BY <1>1, <2>1, <2>2, AbandonStep, SameDrops, TypeParts, QuietStep
<1>2. CASE ~(Abandon(s) /\ UNCHANGED sent)
  <2>1. /\ phase[s] = "ingested"
        /\ Acknowledge(Client[s], Server[s], cursor[s])
        /\ Goto(s, "acknowledged")
        /\ cursor' = [cursor EXCEPT ![s] = 0]
        /\ UNCHANGED <<out, back, log, live, receipt, drops>>
    BY <1>2 DEF ClientAcknowledge
  <2>2. cursor[s] \in Nat /\ cursor[s] <= receipt[Server[s]][Client[s]]
    BY <2>1 DEF CursorsMatch, TypeOK
  <2>3. SessionsOK'
    BY <2>1 DEF Goto, SessionsOK, TypeOK, Phase
  <2>4. PagesStep
    BY <2>1 DEF PagesStep
  <2>5. CursorsStep
    BY <2>1 DEF CursorsStep, Goto, TypeOK
  <2> QED BY <2>1, <2>2, <2>3, <2>4, <2>5, Ends, AcknowledgeStep
<1> QED BY <1>1, <1>2

\* The server counts what the client reported.
LEMMA ServerAcknowledgeStep ==
  ASSUME IInv, NEW s \in Session, ServerAcknowledge(s)
  PROVE  IInv'
<1> USE DEF IInv
<1>1. Abandon(s) /\ UNCHANGED <<log, live, receipt, drops>> /\ phase[s] = "ack"
  BY DEF ServerAcknowledge
<1>2. SessionsOK' /\ PagesStep /\ CursorsStep
  BY <1>1, AbandonStep
<1>3. CASE UNCHANGED sent
  <2>1. UNCHANGED journals /\ UNCHANGED drops
    BY <1>1, <1>3 DEF journals
  <2>2. JournalsOK' /\ Same
    BY <2>1, SameJournals
  <2> QED BY <1>2, <1>3, <2>1, <2>2, SameDrops, TypeParts, QuietStep
<1>4. CASE ~UNCHANGED sent
  <2>1. Acknowledge(Server[s], Client[s], cursor[s])
    BY <1>4 DEF ServerAcknowledge
  <2>2. cursor[s] \in Nat /\ cursor[s] <= receipt[Client[s]][Server[s]]
    BY <1>1 DEF CursorsMatch, TypeOK
  <2> QED BY <1>1, <1>2, <2>1, <2>2, Ends, AcknowledgeStep
<1> QED BY <1>3, <1>4

\* A lost connection leaves the journals alone.
LEMMA DropStep ==
  ASSUME IInv, NEW s \in Session, Drop(s)
  PROVE  IInv'
<1> USE DEF IInv
<1>1. SessionsOK' /\ PagesStep /\ CursorsStep
  BY AbandonStep DEF Drop
<1>2. JournalsOK' /\ Same /\ UNCHANGED sent
  BY SameJournals DEF Drop
<1>3. DropsOK'
  BY DropsAssumption DEF Drop, DropsOK, TypeOK
<1> QED BY <1>1, <1>2, <1>3, TypeParts, QuietStep

\* Pruning touches payloads only.
LEMMA PruneStep ==
  ASSUME IInv, NEW r \in Replica, NEW ids \in SUBSET Fact, Prune(r, ids)
  PROVE  IInv'
<1> USE DEF IInv
<1>1. SessionsOK' /\ PagesStep /\ CursorsStep
  BY DEF Prune, sessions, SessionsOK, PagesStep, CursorsStep, TypeOK
<1>2. JournalsOK' /\ Same /\ UNCHANGED sent /\ UNCHANGED drops
  BY DEF Prune, JournalsOK, TypeOK, Same
<1> QED BY <1>1, <1>2, SameDrops, TypeParts, QuietStep

\* A new fact extends the log of its replica.
LEMMA PutStep ==
  ASSUME IInv, NEW r \in Replica, NEW f \in Fact, Put(r, f)
  PROVE  IInv'
<1> USE DEF IInv
<1>1. log[r] \in Seq(Fact) /\ <<f>> \in Seq(Fact) /\ log \in [Replica -> Seq(Fact)]
  BY DEF TypeOK
<1>2. log'[r] = Append(log[r], f)
  BY <1>1 DEF Put
<1>3. /\ log'[r] \in Seq(Fact)
      /\ Len(log'[r]) = Len(log[r]) + 1
      /\ \A i \in 1 .. Len(log[r]) : log'[r][i] = log[r][i]
  BY <1>1, <1>2
<1>4. \A q \in Replica : q # r => log'[q] = log[q]
  BY <1>1 DEF Put
<1>5. log' \in [Replica -> Seq(Fact)]
  BY <1>1, <1>3 DEF Put
<1>6. \A q \in Replica :
        /\ Len(log[q]) <= Len(log'[q])
        /\ \A i \in 1 .. Len(log[q]) : log'[q][i] = log[q][i]
        /\ Range(log[q]) \subseteq Range(log'[q])
  <2> TAKE q \in Replica
  <2>1. CASE q = r
    <3>1. Range(log[r]) \subseteq Range(log'[r])
      BY <1>1, <1>3 DEF Range
    <3> QED BY <2>1, <3>1, <1>1, <1>3
  <2>2. CASE q # r
    <3>1. log'[q] = log[q] /\ log[q] \in Seq(Fact)
      BY <2>2, <1>1, <1>4
    <3> QED BY <3>1
  <2> QED BY <2>1, <2>2
<1>7. UNCHANGED <<receipt, sent, drops>>
  BY DEF Put
<1>8. Grows
  <2>1. \A a, b \in Replica : receipt[a][b] \in Nat
    BY DEF TypeOK
  <2> QED BY <1>6, <1>7, <2>1 DEF Grows
<1>9. SessionsOK' /\ PagesStep /\ CursorsStep
  BY DEF Put, sessions, SessionsOK, PagesStep, CursorsStep, TypeOK
<1>10. JournalsOK'
  BY <1>5 DEF Put, JournalsOK, TypeOK
<1>11. TypeOK'
  BY <1>7, <1>9, <1>10, SameDrops, TypeParts
<1>12. ReceiptCovers'
  <2> SUFFICES ASSUME NEW a \in Replica, NEW b \in Replica
               PROVE  /\ receipt[a][b] <= Len(log'[b])
                      /\ \A i \in 1 .. receipt[a][b] :
                           log'[b][i] \in Range(log'[a])
    BY <1>7 DEF ReceiptCovers
  <2>1. /\ receipt[a][b] <= Len(log[b])
        /\ \A i \in 1 .. receipt[a][b] : log[b][i] \in Range(log[a])
    BY DEF ReceiptCovers
  <2>2. receipt[a][b] \in Nat /\ Len(log[b]) \in Nat /\ Len(log'[b]) \in Nat
    <3>1. log[b] \in Seq(Fact) /\ log'[b] \in Seq(Fact)
      BY <1>1, <1>5
    <3>2. receipt[a][b] \in Nat
      BY DEF TypeOK
    <3> QED BY <3>1, <3>2
  <2>3. \A i \in 1 .. receipt[a][b] : i \in 1 .. Len(log[b])
    BY <2>1, <2>2
  <2>4. /\ Len(log[b]) <= Len(log'[b])
        /\ \A i \in 1 .. Len(log[b]) : log'[b][i] = log[b][i]
        /\ Range(log[a]) \subseteq Range(log'[a])
    BY <1>6
  <2>5. receipt[a][b] <= Len(log'[b])
    BY <2>1, <2>2, <2>4
  <2>6. \A i \in 1 .. receipt[a][b] : log'[b][i] \in Range(log'[a])
    BY <2>1, <2>3, <2>4
  <2> QED BY <2>5, <2>6
<1>13. AcknowledgedIsReceived'
  BY <1>7 DEF AcknowledgedIsReceived
<1>14. PagesMatch' /\ CursorsMatch'
  BY <1>8, <1>9, <1>11, PagesMatchStep, CursorsMatchStep
<1> QED BY <1>11, <1>12, <1>13, <1>14

---------------------------------------------------------------------------
\* Nothing was written and nothing is on the wire at first.
LEMMA InitIInv == Init => IInv
<1> SUFFICES ASSUME Init PROVE IInv
  OBVIOUS
<1>1. <<>> \in Seq(Fact) /\ Len(<<>>) = 0
  OBVIOUS
<1>2. TypeOK
  BY <1>1, NoPageIsPage, DropsAssumption DEF Init, TypeOK, Phase
<1>3. \A r, p \in Replica : receipt[r][p] = 0 /\ sent[r][p] = 0 /\ log[p] = <<>>
  BY DEF Init
<1>4. ReceiptCovers /\ AcknowledgedIsReceived
  BY <1>1, <1>3 DEF ReceiptCovers, AcknowledgedIsReceived
<1>5. PagesMatch
  <2> SUFFICES ASSUME NEW s \in Session
               PROVE  /\ Fits(NoPage, log[Client[s]],
                              receipt[Server[s]][Client[s]])
                      /\ Fits(NoPage, log[Server[s]],
                              receipt[Client[s]][Server[s]])
    BY DEF PagesMatch, Init
  <2> QED BY <1>2, Ends, NoPageFits
<1>6. CursorsMatch
  BY DEF CursorsMatch, Init
<1> QED BY <1>2, <1>4, <1>5, <1>6 DEF IInv

\* Every step preserves the invariant.
LEMMA NextIInv == IInv /\ [Next]_vars => IInv'
<1> SUFFICES ASSUME IInv, [Next]_vars PROVE IInv'
  OBVIOUS
<1>1. ASSUME NEW r \in Replica, NEW f \in Fact, Put(r, f) PROVE IInv'
  BY <1>1, PutStep
<1>2. ASSUME NEW r \in Replica, NEW f \in Prunable, Prune(r, {f}) PROVE IInv'
  BY <1>2, PruneStep, PrunableAssumption
<1>3. ASSUME NEW s \in Session, Step(s) PROVE IInv'
  BY <1>3, ClientHelloStep, ServerWelcomeStep, ClientBatchStep,
     ClientTurnStep, ServerBatchStep, ServerIngestStep, ServerReplyStep,
     ClientIngestStep, ClientAcknowledgeStep, ClientAckStep,
     ServerAcknowledgeStep DEF Step
<1>4. ASSUME NEW s \in Session, Drop(s) PROVE IInv'
  BY <1>4, DropStep
<1>5. CASE UNCHANGED vars
  <2>1. SessionsOK' /\ PagesStep /\ CursorsStep
    BY <1>5 DEF vars, sessions, SessionsOK, PagesStep, CursorsStep, TypeOK, IInv
  <2>2. JournalsOK' /\ Same /\ UNCHANGED sent /\ UNCHANGED drops
    BY <1>5, SameJournals DEF vars, IInv
  <2> QED BY <2>1, <2>2, SameDrops, TypeParts, QuietStep DEF IInv
<1> QED BY <1>1, <1>2, <1>3, <1>4, <1>5 DEF Next

\* The invariant holds in every reachable state.
LEMMA SpecIInv == Spec => []IInv
  BY InitIInv, NextIInv, PTL DEF Spec

\* The variables of every reachable state have their types.
THEOREM TypeCorrect == Spec => []TypeOK
<1>1. IInv => TypeOK
  BY DEF IInv
<1> QED BY <1>1, SpecIInv, PTL

\* A reported receipt covers a whole prefix of the peer's log, whatever the
\* topology, the page boundaries and the failures (lib.rs:4-7).
THEOREM ReceiptsCoverPrefixes == Spec => []ReceiptCovers
<1>1. IInv => ReceiptCovers
  BY DEF IInv
<1> QED BY <1>1, SpecIInv, PTL

\* An acknowledged position was durably received by the peer.
THEOREM AcknowledgmentsAreReceived == Spec => []AcknowledgedIsReceived
<1>1. IInv => AcknowledgedIsReceived
  BY DEF IInv
<1> QED BY <1>1, SpecIInv, PTL

\* No end ever refuses a cursor, a page or an acknowledgment for its position.
THEOREM NeverRefused == Spec => []NoSpuriousRefusal
<1>1. IInv => NoSpuriousRefusal
  <2> SUFFICES ASSUME IInv, NEW s \in Session
               PROVE  /\ phase[s] = "welcome"  => CanBatch(Client[s], cursor[s])
                      /\ phase[s] = "turn"     => CanBatch(Server[s], cursor[s])
                      /\ phase[s] = "captured" =>
                           CanIngest(Server[s], Client[s], out[s])
                      /\ phase[s] = "reply"    =>
                           CanIngest(Client[s], Server[s], back[s])
                      /\ phase[s] = "ingested" =>
                           CanAcknowledge(Client[s], cursor[s])
    BY DEF NoSpuriousRefusal
  <2>1. /\ Client[s] \in Replica /\ Server[s] \in Replica
        /\ cursor[s] \in Nat
        /\ receipt[Server[s]][Client[s]] \in Nat
        /\ receipt[Client[s]][Server[s]] \in Nat
        /\ Len(log[Client[s]]) \in Nat /\ Len(log[Server[s]]) \in Nat
    <3>1. Client[s] \in Replica /\ Server[s] \in Replica
      BY Ends
    <3>2. log[Client[s]] \in Seq(Fact) /\ log[Server[s]] \in Seq(Fact)
      BY <3>1 DEF IInv, TypeOK
    <3>3. cursor[s] \in Nat
      BY DEF IInv, TypeOK
    <3>4. /\ receipt[Server[s]][Client[s]] \in Nat
          /\ receipt[Client[s]][Server[s]] \in Nat
      BY <3>1 DEF IInv, TypeOK
    <3> QED BY <3>1, <3>2, <3>3, <3>4
  <2>2. /\ receipt[Server[s]][Client[s]] <= Len(log[Client[s]])
        /\ receipt[Client[s]][Server[s]] <= Len(log[Server[s]])
    BY <2>1 DEF IInv, ReceiptCovers
  <2>3. phase[s] \in {"welcome", "ingested"} =>
          cursor[s] <= receipt[Server[s]][Client[s]]
    BY DEF IInv, CursorsMatch
  <2>4. phase[s] = "turn" => cursor[s] <= receipt[Client[s]][Server[s]]
    BY DEF IInv, CursorsMatch
  <2>5. /\ CanIngest(Server[s], Client[s], out[s])
        /\ CanIngest(Client[s], Server[s], back[s])
    BY DEF IInv, PagesMatch, Fits, CanIngest
  <2> QED BY <2>1, <2>2, <2>3, <2>4, <2>5 DEF CanBatch, CanAcknowledge
<1> QED BY <1>1, SpecIInv, PTL
---------------------------------------------------------------------------
\* A page that fits a log without repetitions has none itself.
LEMMA FitsInjective ==
  ASSUME NEW journal \in Seq(Fact), NEW page \in Page, NEW position \in Nat,
         Fits(page, journal, position), IsInjective(journal)
  PROVE  IsInjective(page.records)
<1>1. page.after \in Nat /\ page.records \in Seq(Fact)
  BY DEF Page
<1>2. \A i \in 1 .. Len(page.records) :
        /\ page.after + i \in 1 .. Len(journal)
        /\ page.records[i] = journal[page.after + i]
  BY <1>1 DEF Fits, Through
<1>3. ASSUME NEW i \in 1 .. Len(page.records), NEW j \in 1 .. Len(page.records),
             page.records[i] = page.records[j]
      PROVE  i = j
  <2>1. page.after + i = page.after + j
    BY <1>2, <1>3 DEF IsInjective
  <2> QED BY <1>1, <2>1
<1> QED BY <1>1, <1>3 DEF IsInjective

\* The facts that a page without repetitions adds have none either.
LEMMA FirstSeenInjective ==
  ASSUME NEW r \in Replica, NEW page \in Page, TypeOK,
         IsInjective(page.records), NEW fresh \in FirstSeen(r, page)
  PROVE  IsInjective(fresh)
<1>1. fresh \in Seq(Fact) /\ page.records \in Seq(Fact)
  BY FirstSeenAdds DEF Page
<1>2. ASSUME NEW i \in 1 .. Len(fresh), NEW j \in 1 .. Len(fresh), i < j
      PROVE  fresh[i] # fresh[j]
  <2>1. \A k, l \in DOMAIN fresh :
          k < l => \E a, b \in DOMAIN page.records :
                     /\ a < b
                     /\ page.records[a] = fresh[k]
                     /\ page.records[b] = fresh[l]
    BY Zenon DEF FirstSeen
  <2>2. PICK a, b \in DOMAIN page.records :
          /\ a < b
          /\ page.records[a] = fresh[i]
          /\ page.records[b] = fresh[j]
    <3>1. i \in DOMAIN fresh /\ j \in DOMAIN fresh
      BY <1>1
    <3> QED BY <1>2, <2>1, <3>1
  <2>3. a \in Nat /\ b \in Nat /\ a # b
    BY <1>1, <2>2
  <2> QED BY <2>2, <2>3 DEF IsInjective
<1>3. \A i, j \in 1 .. Len(fresh) : fresh[i] = fresh[j] => i = j
  <2> SUFFICES ASSUME NEW i \in 1 .. Len(fresh), NEW j \in 1 .. Len(fresh),
                      i # j
               PROVE  fresh[i] # fresh[j]
    OBVIOUS
  <2>1. i < j \/ j < i
    BY <1>1
  <2> QED BY <1>2, <2>1
<1> QED BY <1>1, <1>3 DEF IsInjective

\* Facts that a log lacks extend it without a repetition.
LEMMA ConcatInjective ==
  ASSUME NEW a \in Seq(Fact), NEW b \in Seq(Fact),
         IsInjective(a), IsInjective(b), Range(a) \cap Range(b) = {}
  PROVE  IsInjective(a \o b)
<1>1. /\ a \o b \in Seq(Fact)
      /\ Len(a \o b) = Len(a) + Len(b)
      /\ Len(a) \in Nat /\ Len(b) \in Nat
      /\ \A i \in 1 .. Len(a) : (a \o b)[i] = a[i]
      /\ \A i \in 1 .. Len(b) : (a \o b)[Len(a) + i] = b[i]
  OBVIOUS
<1>2. \A i \in 1 .. Len(a), j \in 1 .. Len(b) : a[i] # b[j]
  BY DEF Range
<1>3. \A i \in 1 .. Len(a) + Len(b) :
        \/ i \in 1 .. Len(a)
        \/ i - Len(a) \in 1 .. Len(b) /\ i = Len(a) + (i - Len(a))
  BY <1>1
<1>4. ASSUME NEW i \in 1 .. Len(a) + Len(b), NEW j \in 1 .. Len(a) + Len(b),
             (a \o b)[i] = (a \o b)[j]
      PROVE  i = j
  <2>1. CASE i \in 1 .. Len(a) /\ j \in 1 .. Len(a)
    BY <1>1, <1>4, <2>1 DEF IsInjective
  <2>2. CASE i \notin 1 .. Len(a) /\ j \notin 1 .. Len(a)
    <3>1. /\ i - Len(a) \in 1 .. Len(b) /\ (a \o b)[i] = b[i - Len(a)]
          /\ j - Len(a) \in 1 .. Len(b) /\ (a \o b)[j] = b[j - Len(a)]
      BY <1>1, <1>3, <2>2
    <3>2. \A k, l \in 1 .. Len(b) : b[k] = b[l] => k = l
      BY DEF IsInjective
    <3>3. i - Len(a) = j - Len(a)
      BY <1>4, <3>1, <3>2
    <3> QED BY <1>1, <3>3
  <2>3. CASE i \in 1 .. Len(a) /\ j \notin 1 .. Len(a)
    <3>1. j - Len(a) \in 1 .. Len(b) /\ (a \o b)[j] = b[j - Len(a)]
      BY <1>1, <1>3, <2>3
    <3> QED BY <1>1, <1>2, <1>4, <2>3, <3>1
  <2>4. CASE i \notin 1 .. Len(a) /\ j \in 1 .. Len(a)
    <3>1. i - Len(a) \in 1 .. Len(b) /\ (a \o b)[i] = b[i - Len(a)]
      BY <1>1, <1>3, <2>4
    <3> QED BY <1>1, <1>2, <1>4, <2>4, <3>1
  <2> QED BY <2>1, <2>2, <2>3, <2>4
<1> QED BY <1>1, <1>4 DEF IsInjective

\* A page that fits the log of its sender is stored without a repetition.
LEMMA IngestOnce ==
  ASSUME IInv, DeliveredOnce, NEW r \in Replica, NEW p \in Replica,
         NEW page \in Page, Fits(page, log[p], receipt[r][p]),
         Ingest(r, p, page)
  PROVE  DeliveredOnce'
<1>1. TypeOK
  BY DEF IInv
<1>2. /\ log \in [Replica -> Seq(Fact)] /\ log[r] \in Seq(Fact)
      /\ log[p] \in Seq(Fact) /\ receipt[r][p] \in Nat
  BY <1>1 DEF TypeOK
<1>3. PICK fresh \in FirstSeen(r, page) :
        log' = [log EXCEPT ![r] = @ \o fresh]
  BY DEF Ingest
<1>4. /\ fresh \in Seq(Fact)
      /\ Range(log[r]) \cap Range(fresh) = {}
  BY <1>1, FirstSeenAdds
<1>5. IsInjective(page.records)
  BY <1>2, FitsInjective DEF DeliveredOnce
<1>6. IsInjective(fresh)
  BY <1>1, <1>5, FirstSeenInjective
<1>7. IsInjective(log[r] \o fresh)
  BY <1>2, <1>4, <1>6, ConcatInjective DEF DeliveredOnce
<1>8. \A q \in Replica : log'[q] = IF q = r THEN log[r] \o fresh ELSE log[q]
  BY <1>2, <1>3
<1> QED BY <1>7, <1>8 DEF DeliveredOnce

\* A fact that is put is new to its log.
LEMMA PutOnce ==
  ASSUME IInv, DeliveredOnce, NEW r \in Replica, NEW f \in Fact, Put(r, f)
  PROVE  DeliveredOnce'
<1>1. log \in [Replica -> Seq(Fact)] /\ log[r] \in Seq(Fact)
  BY DEF IInv, TypeOK
<1>2. /\ <<f>> \in Seq(Fact)
      /\ IsInjective(<<f>>)
      /\ Range(<<f>>) = {f}
      /\ Append(log[r], f) = log[r] \o <<f>>
  BY <1>1 DEF IsInjective, Range
<1>3. IsInjective(log[r] \o <<f>>)
  BY <1>1, <1>2, ConcatInjective DEF DeliveredOnce, Put
<1>4. \A q \in Replica : log'[q] = IF q = r THEN log[r] \o <<f>> ELSE log[q]
  BY <1>1, <1>2 DEF Put
<1> QED BY <1>3, <1>4 DEF DeliveredOnce

\* What a step does to the facts of the replicas: nothing, a new fact, a
\* pruned one, a page that fits, or a position that the peer has reported.
JournalStep ==
  \/ UNCHANGED <<log, live, sent>>
  \/ \E r \in Replica, f \in Fact : Put(r, f)
  \/ \E r \in Replica, f \in Prunable : Prune(r, {f})
  \/ \E r, p \in Replica : \E page \in Page :
       /\ Fits(page, log[p], receipt[r][p])
       /\ Ingest(r, p, page)
       /\ UNCHANGED sent
  \/ \E r, p \in Replica : \E position \in Nat :
       /\ position <= receipt[p][r]
       /\ Acknowledge(r, p, position)
       /\ UNCHANGED <<log, live>>

\* Every step of the exchange does one of these.
LEMMA JournalSteps == ASSUME IInv, [Next]_vars PROVE JournalStep
<1> USE DEF JournalStep
<1>1. ASSUME NEW s \in Session, Step(s) PROVE JournalStep
  <2>1. CASE ServerIngest(s)
    <3>1. out[s] \in Page
          /\ Fits(out[s], log[Client[s]], receipt[Server[s]][Client[s]])
      BY DEF IInv, TypeOK, PagesMatch
    <3>2. /\ UNCHANGED sent
          /\ \/ UNCHANGED <<log, live>>
             \/ Ingest(Server[s], Client[s], out[s])
      BY <2>1 DEF ServerIngest
    <3> QED BY <3>1, <3>2, Ends
  <2>2. CASE ClientIngest(s)
    <3>1. back[s] \in Page
          /\ Fits(back[s], log[Server[s]], receipt[Client[s]][Server[s]])
      BY DEF IInv, TypeOK, PagesMatch
    <3>2. /\ UNCHANGED sent
          /\ \/ UNCHANGED <<log, live>>
             \/ Ingest(Client[s], Server[s], back[s])
      BY <2>2 DEF ClientIngest
    <3> QED BY <3>1, <3>2, Ends
  <2>3. CASE ClientAcknowledge(s)
    <3>1. phase[s] = "ingested" => cursor[s] <= receipt[Server[s]][Client[s]]
      BY DEF IInv, CursorsMatch
    <3>2. /\ phase[s] = "ingested" /\ UNCHANGED <<log, live>>
          /\ UNCHANGED sent \/ Acknowledge(Client[s], Server[s], cursor[s])
      BY <2>3 DEF ClientAcknowledge
    <3>3. cursor[s] \in Nat
      BY DEF IInv, TypeOK
    <3> QED BY <3>1, <3>2, <3>3, Ends
  <2>4. CASE ServerAcknowledge(s)
    <3>1. phase[s] = "ack" => cursor[s] <= receipt[Client[s]][Server[s]]
      BY DEF IInv, CursorsMatch
    <3>2. /\ phase[s] = "ack" /\ UNCHANGED <<log, live>>
          /\ UNCHANGED sent \/ Acknowledge(Server[s], Client[s], cursor[s])
      BY <2>4 DEF ServerAcknowledge
    <3>3. cursor[s] \in Nat
      BY DEF IInv, TypeOK
    <3> QED BY <3>1, <3>2, <3>3, Ends
  <2>5. CASE \/ ClientHello(s) \/ ServerWelcome(s) \/ ClientBatch(s)
             \/ ClientTurn(s) \/ ServerBatch(s) \/ ServerReply(s)
             \/ ClientAck(s)
    BY <2>5 DEF ClientHello, ServerWelcome, ClientBatch, ClientTurn,
       ServerBatch, ServerReply, ClientAck, journals
  <2> QED BY <1>1, <2>1, <2>2, <2>3, <2>4, <2>5 DEF Step
<1>2. ASSUME NEW s \in Session, Drop(s) PROVE JournalStep
  BY <1>2 DEF Drop, journals
<1>3. CASE UNCHANGED vars
  BY <1>3 DEF vars, journals
<1> QED BY <1>1, <1>2, <1>3 DEF Next

\* A fact has one delivery position at a replica, however many peers offer it
\* and over whatever pages (record_delivery, lib.rs).
THEOREM FactsAreDeliveredOnce == Spec => []DeliveredOnce
<1>1. Init => DeliveredOnce
  <2>1. IsInjective(<<>>)
    BY DEF IsInjective
  <2> QED BY <2>1 DEF Init, DeliveredOnce
<1>2. IInv /\ DeliveredOnce /\ [Next]_vars => DeliveredOnce'
  <2> SUFFICES ASSUME IInv, DeliveredOnce, [Next]_vars PROVE DeliveredOnce'
    OBVIOUS
  <2>1. CASE log' = log
    BY <2>1 DEF DeliveredOnce
  <2>2. ASSUME NEW r \in Replica, NEW f \in Prunable, Prune(r, {f})
        PROVE  log' = log
    BY <2>2 DEF Prune
  <2> QED BY <2>1, <2>2, JournalSteps, PutOnce, IngestOnce
     DEF JournalStep
<1> QED BY <1>1, <1>2, SpecIInv, PTL DEF Spec

\* A fact pruned at a replica stays pruned there, whatever its peers send
\* (ingest, lib.rs).
THEOREM TombstonesArePermanent == Spec => TombstoneIsPermanent
<1> DEFINE Stays == \A r \in Replica :
                      \A f \in Range(log[r]) \ live[r] : f \notin live'[r]
<1>1. IInv /\ [Next]_vars => Stays
  <2> SUFFICES ASSUME IInv, [Next]_vars, NEW q \in Replica,
                      NEW g \in Range(log[q]) \ live[q]
               PROVE  g \notin live'[q]
    OBVIOUS
  <2>1. live \in [Replica -> SUBSET Fact]
    BY DEF IInv, TypeOK
  <2>2. ASSUME NEW r \in Replica, NEW f \in Fact, Put(r, f)
        PROVE  g \notin live'[q]
    BY <2>1, <2>2 DEF Put
  <2>3. ASSUME NEW r \in Replica, NEW f \in Prunable, Prune(r, {f})
        PROVE  g \notin live'[q]
    BY <2>1, <2>3 DEF Prune
  <2>4. ASSUME NEW r \in Replica, NEW p \in Replica, NEW page \in Page,
               Ingest(r, p, page)
        PROVE  g \notin live'[q]
    BY <2>1, <2>4 DEF Ingest, LiveAfter
  <2> QED BY <2>2, <2>3, <2>4, JournalSteps DEF JournalStep
<1>2. IInv /\ [Next]_vars => [Stays]_vars
  BY <1>1
<1> QED BY <1>2, SpecIInv, PTL DEF Spec, TombstoneIsPermanent

\* A server that captures an empty page has nothing that its client lacks
\* (Exchange.incoming_drained, session.rs:24).
THEOREM EmptyPagesProveDrained == Spec => EmptyPageProvesDrained
<1> DEFINE Drained == \A s \in Session :
       phase[s] = "turn" /\ phase'[s] = "captured" /\ back'[s].records = <<>>
         => Range(log[Server[s]]) \subseteq Range(log[Client[s]])
<1>1. IInv /\ [Next]_vars => Drained
  <2> SUFFICES ASSUME IInv, [Next]_vars, NEW s \in Session,
                      phase[s] = "turn", phase'[s] = "captured",
                      back'[s].records = <<>>
               PROVE  Range(log[Server[s]]) \subseteq Range(log[Client[s]])
    OBVIOUS
  <2>1. TypeOK /\ phase \in [Session -> Phase] /\ back \in [Session -> Page]
    BY DEF IInv, TypeOK
  <2>2. ServerBatch(s)
    <3>1. ASSUME NEW t \in Session, Step(t) \/ Drop(t) PROVE t = s
      BY <2>1, <3>1 DEF Step, Drop, Abandon, Goto, ClientHello, ServerWelcome,
         ClientBatch, ClientTurn, ServerBatch, ServerIngest, ServerReply,
         ClientIngest, ClientAcknowledge, ClientAck, ServerAcknowledge
    <3>2. phase' # phase
      OBVIOUS
    <3>3. \A t \in Session : Drop(t) => t # s
      BY <2>1 DEF Drop, Abandon, Goto
    <3>4. Step(s)
      BY <3>1, <3>2, <3>3 DEF Next, Put, Prune, vars, sessions
    <3> QED BY <3>4 DEF Step, ClientHello, ServerWelcome, ClientBatch,
         ClientTurn, ServerIngest, ServerReply, ClientIngest,
         ClientAcknowledge, ClientAck, ServerAcknowledge
  <2>3. Client[s] \in Replica /\ Server[s] \in Replica
    BY Ends
  <2>4. /\ cursor[s] \in Nat
        /\ log[Server[s]] \in Seq(Fact)
        /\ receipt[Client[s]][Server[s]] \in Nat
    BY <2>1, <2>3 DEF TypeOK
  <2>5. /\ CanBatch(Server[s], cursor[s])
        /\ back'[s] \in Batches(Server[s], cursor[s])
    BY <2>1, <2>2 DEF ServerBatch, Abandon, Goto
  <2>6. cursor[s] >= Len(log[Server[s]])
    <3> DEFINE rest == Len(log[Server[s]]) - cursor[s]
    <3>1. rest \in Nat
      BY <2>4, <2>5 DEF CanBatch
    <3> DEFINE piece(n) ==
                 SubSeq(log[Server[s]], cursor[s] + 1, cursor[s] + n)
    <3>2. PICK n \in PageLengths(rest) :
            back'[s] = [after   |-> cursor[s],
                        records |-> piece(n),
                        dead    |-> Range(piece(n)) \ live[Server[s]]]
      BY <2>5, Zenon DEF Batches
    <3>3. n \in Nat /\ n <= rest /\ (n = 0 => rest = 0)
      BY <3>1, <3>2, PageAssumption DEF PageLengths
    <3>4. n = 0
      <4>1. Len(piece(n)) = n
        BY <2>4, <3>1, <3>3
      <4>2. piece(n) = <<>>
        BY <3>2
      <4> QED BY <4>1, <4>2
    <3> QED BY <2>4, <3>3, <3>4
  <2>7. cursor[s] <= receipt[Client[s]][Server[s]]
    BY DEF IInv, CursorsMatch
  <2>8. \A i \in 1 .. Len(log[Server[s]]) :
          log[Server[s]][i] \in Range(log[Client[s]])
    <3>1. \A i \in 1 .. receipt[Client[s]][Server[s]] :
            log[Server[s]][i] \in Range(log[Client[s]])
      BY <2>3 DEF IInv, ReceiptCovers
    <3>2. Len(log[Server[s]]) <= receipt[Client[s]][Server[s]]
      BY <2>4, <2>6, <2>7
    <3> QED BY <2>4, <3>1, <3>2
  <2> QED BY <2>4, <2>8 DEF Range
<1>2. IInv /\ [Next]_vars => [Drained]_vars
  BY <1>1
<1> QED BY <1>2, SpecIInv, PTL DEF Spec, EmptyPageProvesDrained

---------------------------------------------------------------------------
\* What a replica holds, and what it knows that a peer holds.
Held == [r \in Replica |-> Range(log[r])]
Known == [r \in Replica |-> [p \in Replica |->
           {log[r][i] : i \in 1 .. sent[r][p]}]]

\* A fact that is put is added at the end of one log.
LEMMA PutGrows ==
  ASSUME IInv, NEW r \in Replica, NEW f \in Fact, Put(r, f)
  PROVE  /\ Held' = [Held EXCEPT ![r] = @ \cup {f}]
         /\ \A q \in Replica : \A i \in 1 .. Len(log[q]) :
              log'[q][i] = log[q][i]
<1>1. log \in [Replica -> Seq(Fact)] /\ log[r] \in Seq(Fact)
  BY DEF IInv, TypeOK
<1>2. /\ <<f>> \in Seq(Fact)
      /\ Range(<<f>>) = {f}
      /\ Append(log[r], f) = log[r] \o <<f>>
  BY <1>1 DEF Range
<1>3. \A q \in Replica : log'[q] = IF q = r THEN log[r] \o <<f>> ELSE log[q]
  BY <1>1, <1>2 DEF Put
<1>4. /\ Range(log[r] \o <<f>>) = Range(log[r]) \cup {f}
      /\ \A i \in 1 .. Len(log[r]) : (log[r] \o <<f>>)[i] = log[r][i]
  <2> DEFINE last == <<f>>
  <2>1. last \in Seq(Fact) /\ Range(last) = {f}
    BY <1>2
  <2> HIDE DEF last
  <2>2. /\ Range(log[r] \o last) = Range(log[r]) \cup {f}
        /\ \A i \in 1 .. Len(log[r]) : (log[r] \o last)[i] = log[r][i]
    BY <1>1, <2>1, ConcatRange
  <2> QED BY <2>2 DEF last
<1>5. \A q \in Replica :
        Range(log'[q]) = IF q = r THEN Range(log[r]) \cup {f} ELSE Range(log[q])
  BY <1>3, <1>4
<1> QED BY <1>3, <1>4, <1>5 DEF Held

\* A page that fits copies facts of the peer.
LEMMA IngestCopies ==
  ASSUME IInv, NEW r \in Replica, NEW p \in Replica, NEW page \in Page,
         Fits(page, log[p], receipt[r][p]), Ingest(r, p, page)
  PROVE  /\ Range(page.records) \subseteq Range(log[p])
         /\ Held' = [Held EXCEPT ![r] = @ \cup Range(page.records)]
<1>1. TypeOK
  BY DEF IInv
<1>2. /\ log \in [Replica -> Seq(Fact)] /\ log[r] \in Seq(Fact)
      /\ log[p] \in Seq(Fact)
      /\ page.after \in Nat /\ page.records \in Seq(Fact)
  BY <1>1 DEF TypeOK, Page
<1>3. PICK fresh \in FirstSeen(r, page) :
        log' = [log EXCEPT ![r] = @ \o fresh]
  BY DEF Ingest
<1>4. /\ fresh \in Seq(Fact)
      /\ Range(fresh) = Range(page.records) \ Range(log[r])
  BY <1>1, FirstSeenAdds
<1>5. \A q \in Replica : log'[q] = IF q = r THEN log[r] \o fresh ELSE log[q]
  BY <1>2, <1>3
<1>6. Range(log[r] \o fresh) = Range(log[r]) \cup Range(page.records)
  BY <1>2, <1>4, ConcatRange
<1>7. \A q \in Replica :
        Range(log'[q]) = IF q = r THEN Range(log[r]) \cup Range(page.records)
                                  ELSE Range(log[q])
  BY <1>5, <1>6
<1>8. Range(page.records) \subseteq Range(log[p])
  <2>1. \A i \in 1 .. Len(page.records) :
          /\ page.after + i \in 1 .. Len(log[p])
          /\ page.records[i] = log[p][page.after + i]
    BY <1>2 DEF Fits, Through
  <2>2. ASSUME NEW f \in Range(page.records) PROVE f \in Range(log[p])
    <3>1. PICK i \in 1 .. Len(page.records) : f = page.records[i]
      BY <1>2 DEF Range
    <3>2. page.after + i \in DOMAIN log[p] /\ f = log[p][page.after + i]
      BY <1>2, <2>1, <3>1
    <3> QED BY <3>2 DEF Range
  <2> QED BY <2>2
<1> QED BY <1>7, <1>8 DEF Held

\* What is known of a peer does not depend on what a log gains.
LEMMA KnownStays ==
  ASSUME IInv, UNCHANGED sent,
         \A q \in Replica : \A i \in 1 .. Len(log[q]) : log'[q][i] = log[q][i]
  PROVE  Known' = Known
<1> SUFFICES ASSUME NEW r \in Replica, NEW p \in Replica
             PROVE  \A i \in 1 .. sent[r][p] : log'[r][i] = log[r][i]
  BY DEF Known
<1>1. /\ sent[r][p] \in Nat /\ receipt[p][r] \in Nat
      /\ log[r] \in Seq(Fact)
  BY DEF IInv, TypeOK
<1>2. sent[r][p] <= receipt[p][r] /\ receipt[p][r] <= Len(log[r])
  BY DEF IInv, AcknowledgedIsReceived, ReceiptCovers
<1>3. \A i \in 1 .. sent[r][p] : i \in 1 .. Len(log[r])
  BY <1>1, <1>2
<1> QED BY <1>3

\* An acknowledgment teaches only what the peer holds.
LEMMA AcknowledgeLearns ==
  ASSUME IInv, NEW r \in Replica, NEW p \in Replica, NEW position \in Nat,
         position <= receipt[p][r], Acknowledge(r, p, position),
         UNCHANGED log
  PROVE  \E facts \in SUBSET Fact :
           /\ facts \subseteq Held[r] \cap Held[p]
           /\ Known' = [Known EXCEPT ![r][p] = @ \cup facts]
<1> DEFINE new == IF position > sent[r][p] THEN position ELSE sent[r][p]
           facts == {log[r][i] : i \in 1 .. new}
<1>1. /\ sent \in [Replica -> [Replica -> Nat]] /\ sent[r][p] \in Nat
      /\ receipt[p][r] \in Nat /\ log[r] \in Seq(Fact)
  BY DEF IInv, TypeOK
<1>2. sent' = [sent EXCEPT ![r][p] = new]
  BY DEF Acknowledge
<1>3. /\ sent[r][p] <= receipt[p][r] /\ receipt[p][r] <= Len(log[r])
      /\ \A i \in 1 .. receipt[p][r] : log[r][i] \in Range(log[p])
  BY DEF IInv, AcknowledgedIsReceived, ReceiptCovers
<1>4. new \in Nat /\ sent[r][p] <= new /\ new <= receipt[p][r]
  BY <1>1, <1>3
<1>5. \A a, b \in Replica :
        sent'[a][b] = IF a = r /\ b = p THEN new ELSE sent[a][b]
  BY <1>1, <1>2
<1> HIDE DEF new
<1>6. /\ \A i \in 1 .. new : i \in 1 .. receipt[p][r] /\ i \in 1 .. Len(log[r])
      /\ \A i \in 1 .. sent[r][p] : i \in 1 .. new
  BY <1>1, <1>3, <1>4
<1>7. facts \subseteq Range(log[p])
  BY <1>3, <1>6
<1>8. facts \subseteq Range(log[r]) /\ facts \in SUBSET Fact
  BY <1>1, <1>6 DEF Range
<1>9. {log[r][i] : i \in 1 .. sent[r][p]} \cup facts = facts
  BY <1>6
<1> HIDE DEF facts
<1> DEFINE before(a, b) == {log[a][i] : i \in 1 .. sent[a][b]}
           after(a, b) == {log[a][i] : i \in 1 .. sent'[a][b]}
<1>10. \A a, b \in Replica :
         after(a, b) = IF a = r /\ b = p THEN before(a, b) \cup facts
                                        ELSE before(a, b)
  BY <1>5, <1>9 DEF facts
<1>11. /\ Known = [a \in Replica |-> [b \in Replica |-> before(a, b)]]
       /\ Known' = [a \in Replica |-> [b \in Replica |-> after(a, b)]]
  BY DEF Known
<1> HIDE DEF before, after
<1>12. Known' = [Known EXCEPT ![r][p] = @ \cup facts]
  BY <1>10, <1>11
<1> QED BY <1>7, <1>8, <1>12 DEF Held

\* The engine keeps the promise of FactReplication: a step creates a fact,
\* copies facts that the peer holds, or learns what a peer holds.
THEOREM KeepsPromise == Spec => ImplementsFactReplication
<1>1. Init => Facts!Init
  <2> SUFFICES ASSUME Init PROVE Facts!Init
    OBVIOUS
  <2>1. \A r \in Replica : Range(log[r]) = {}
    BY DEF Init, Range
  <2>2. \A r, p \in Replica : {log[r][i] : i \in 1 .. sent[r][p]} = {}
    BY DEF Init
  <2> QED BY <2>1, <2>2 DEF Facts!Init
<1>2. IInv /\ [Next]_vars => [Facts!Next]_<<Held, Known>>
  <2> SUFFICES ASSUME IInv, [Next]_vars
               PROVE  Facts!Next \/ UNCHANGED <<Held, Known>>
    OBVIOUS
  <2>1. CASE UNCHANGED <<log, live, sent>>
    BY <2>1 DEF Held, Known
  <2>2. ASSUME NEW r \in Replica, NEW f \in Fact, Put(r, f) PROVE Facts!Next
    <3>1. Held' = [Held EXCEPT ![r] = @ \cup {f}] /\ Known' = Known
      BY <2>2, PutGrows, KnownStays DEF Put
    <3>2. Facts!Create(r, f)
      BY <3>1 DEF Facts!Create, Held, Known
    <3> QED BY <3>2 DEF Facts!Next
  <2>3. ASSUME NEW r \in Replica, NEW f \in Prunable, Prune(r, {f})
        PROVE  UNCHANGED <<Held, Known>>
    BY <2>3 DEF Prune, Held, Known
  <2>4. ASSUME NEW r \in Replica, NEW p \in Replica, NEW page \in Page,
               Fits(page, log[p], receipt[r][p]), Ingest(r, p, page),
               UNCHANGED sent
        PROVE  Facts!Next
    <3>1. /\ Range(page.records) \subseteq Range(log[p])
          /\ Held' = [Held EXCEPT ![r] = @ \cup Range(page.records)]
      BY <2>4, IngestCopies
    <3>2. Known' = Known
      BY <2>4, IngestCovers, KnownStays DEF IInv, Grows
    <3>3. Range(page.records) \in SUBSET Fact
      <4>1. page.records \in Seq(Fact)
        BY DEF Page
      <4> QED BY <4>1 DEF Range
    <3>4. Facts!Copy(r, p, Range(page.records))
      BY <3>1, <3>2 DEF Facts!Copy, Held, Known
    <3> QED BY <3>3, <3>4 DEF Facts!Next
  <2>5. ASSUME NEW r \in Replica, NEW p \in Replica, NEW position \in Nat,
               position <= receipt[p][r], Acknowledge(r, p, position),
               UNCHANGED <<log, live>>
        PROVE  Facts!Next
    <3>1. PICK facts \in SUBSET Fact :
            /\ facts \subseteq Held[r] \cap Held[p]
            /\ Known' = [Known EXCEPT ![r][p] = @ \cup facts]
      BY <2>5, AcknowledgeLearns
    <3>2. Held' = Held
      BY <2>5 DEF Held
    <3>3. Facts!Learn(r, p, facts)
      BY <3>1, <3>2 DEF Facts!Learn, Held, Known
    <3> QED BY <3>3 DEF Facts!Next
  <2> QED BY <2>1, <2>2, <2>3, <2>4, <2>5, JournalSteps DEF JournalStep
<1>3. Facts!Spec <=> Facts!Init /\ [][Facts!Next]_<<Held, Known>>
  BY DEF Facts!Spec, Held, Known
<1> QED BY <1>1, <1>2, <1>3, SpecIInv, PTL DEF Spec, ImplementsFactReplication
============================================================================
