-------------------------- MODULE ProductPageProofs --------------------------
(***************************************************************************)
(* Proofs about ProductPage, for every set of pages and products and any   *)
(* number of changes and refreshes.                                        *)
(***************************************************************************)
EXTENDS ProductPage, TLAPS

-----------------------------------------------------------------------------
(* The strengthened invariant *)

\* No answer tells of a change that is still to come.
Known(c) ==
  /\ c.knows <= version
  /\ \A n \in DOMAIN c.requests : c.requests[n].at <= version

\* Unless a dialog was submitted twice, there is at most one submission, and
\* its dialog is open and busy.
Single(c) ==
  ~c.again =>
    /\ \A n \in Submissions(c) : c.requests[n].own
    /\ \A m, n \in Submissions(c) : m = n
    /\ Submissions(c) # {} => c.isModalOpen /\ c.isModalBusy

\* A page that knows of the last change will read the table, or has read it
\* since.
Fresh(c) ==
  c.knows = version =>
    \/ c.wanted
    \/ /\ c.query # None
       /\ c.query.step = "ok" => c.query.items = Listed(c.query.min)
    \/ c.query = None /\ (c.failed \/ c.data = Listed(c.min))

\* A busy dialog is open and waits for a submission.
Honest(c) == c.isModalBusy => c.isModalOpen /\ Submissions(c) # {}

PageOK(c) == Known(c) /\ Single(c) /\ Fresh(c) /\ Honest(c)

IInv == TypeOK /\ \A p \in Pages : PageOK(page[p])

-----------------------------------------------------------------------------
(* Sequences of requests *)

\* Removing an element keeps the others, in their order.
LEMMA RemoveAtOK ==
  ASSUME NEW S, NEW s \in Seq(S), NEW n \in DOMAIN s
  PROVE  /\ RemoveAt(s, n) \in Seq(S)
         /\ DOMAIN RemoveAt(s, n) = 1 .. (Len(s) - 1)
         /\ \A k \in 1 .. (Len(s) - 1) :
              RemoveAt(s, n)[k] = s[IF k < n THEN k ELSE k + 1]
<1>1. /\ n \in 1 .. Len(s)
      /\ Len(s) \in Nat
      /\ \A k \in 1 .. Len(s) : s[k] \in S
  OBVIOUS
<1>2. /\ SubSeq(s, 1, n - 1) \in Seq(S)
      /\ Len(SubSeq(s, 1, n - 1)) = n - 1
      /\ \A k \in 1 .. (n - 1) : SubSeq(s, 1, n - 1)[k] = s[k]
  BY <1>1
<1>3. /\ SubSeq(s, n + 1, Len(s)) \in Seq(S)
      /\ Len(SubSeq(s, n + 1, Len(s))) = Len(s) - n
      /\ \A k \in 1 .. (Len(s) - n) : SubSeq(s, n + 1, Len(s))[k] = s[k + n]
  BY <1>1
<1>4. PICK a \in Seq(S), b \in Seq(S) :
        a = SubSeq(s, 1, n - 1) /\ b = SubSeq(s, n + 1, Len(s))
  BY <1>2, <1>3
<1>5. /\ a \o b \in Seq(S)
      /\ Len(a \o b) = Len(s) - 1
      /\ \A k \in 1 .. (Len(s) - 1) :
           (a \o b)[k] = IF k <= n - 1 THEN a[k] ELSE b[k - (n - 1)]
  <2>1. Len(a) = n - 1 /\ Len(b) = Len(s) - n
    BY <1>2, <1>3, <1>4
  <2>2. QED
    BY <1>1, <2>1
<1>6. ASSUME NEW k \in 1 .. (Len(s) - 1)
      PROVE  (a \o b)[k] = s[IF k < n THEN k ELSE k + 1]
  <2>1. CASE k < n
    BY <1>1, <1>2, <1>4, <1>5, <2>1
  <2>2. CASE ~(k < n)
    <3>1. k - (n - 1) \in 1 .. (Len(s) - n) /\ (k - (n - 1)) + n = k + 1
      BY <1>1, <2>2
    <3>2. b[k - (n - 1)] = s[k + 1]
      BY <1>3, <1>4, <3>1
    <3>3. (a \o b)[k] = b[k - (n - 1)]
      BY <1>1, <1>5, <2>2
    <3>4. QED
      BY <2>2, <3>2, <3>3
  <2>3. QED
    BY <2>1, <2>2
<1>7. RemoveAt(s, n) = a \o b
  BY <1>4 DEF RemoveAt
<1>8. QED
  BY <1>1, <1>5, <1>6, <1>7

\* Appending adds one element at the end.
LEMMA AppendOK ==
  ASSUME NEW S, NEW s \in Seq(S), NEW e \in S
  PROVE  /\ Append(s, e) \in Seq(S)
         /\ DOMAIN Append(s, e) = 1 .. (Len(s) + 1)
         /\ Append(s, e)[Len(s) + 1] = e
         /\ \A k \in DOMAIN s : Append(s, e)[k] = s[k]
         /\ DOMAIN s = 1 .. Len(s)
         /\ Len(s) \in Nat
  OBVIOUS

\* No request has been sent at first.
LEMMA EmptySeqOK == <<>> \in Seq(Requests) /\ DOMAIN <<>> = {}
OBVIOUS

\* A function on the indices of a sequence is a sequence.
LEMMA MappedOK ==
  ASSUME NEW S, NEW s \in Seq(S), NEW f \in [DOMAIN s -> S]
  PROVE  f \in Seq(S)
  OBVIOUS

-----------------------------------------------------------------------------
(* Pages and rows *)

\* A query answers rows of the table.
LEMMA ListedOK ==
  ASSUME TypeOK, NEW min \in Filters
  PROVE  Listed(min) \in Rows
BY DEF TypeOK, Listed, Rows

\* The empty page that a query brings at first.
LEMMA NoRowsOK ==
  [id \in Products |-> None] \in Rows
BY DEF Rows

\* A new query is a query, and not None.
LEMMA QueryOfOK ==
  ASSUME TypeOK, NEW p \in Pages
  PROVE  /\ QueryOf(p) \in Queries
         /\ QueryOf(p) # None
         /\ QueryOf(p).step = "sent"
<1>1. page[p].filters \in Filters
  BY DEF TypeOK, Components
<1>2. QED
  BY <1>1, NoRowsOK, NoneAssumption DEF QueryOf, Queries

\* A step that changes one page, and the table at most once, keeps the
\* invariant of the other pages.
LEMMA PageStep ==
  ASSUME IInv, NEW p \in Pages, NEW c \in Components,
         page' = [page EXCEPT ![p] = c],
         table' \in [Products -> Prices \cup {None, Gone}],
         \/ version' = version /\ table' = table
         \/ version' = version + 1,
         asked' \in 0 .. MaxRequests, gets' \in 0 .. MaxGets,
         PageOK(c)'
  PROVE  IInv'
<1>1. TypeOK'
  BY DEF IInv, TypeOK
<1>2. ASSUME NEW q \in Pages
      PROVE  PageOK(page[q])'
  <2>1. CASE q = p
    <3>1. page'[q] = c
      BY <2>1 DEF IInv, TypeOK
    <3>2. QED
      BY <3>1 DEF PageOK, Known, Single, Fresh, Honest, Submissions, Listed
  <2>2. CASE q # p
    <3>1. page'[q] = page[q] /\ PageOK(page[q])
      BY <2>2 DEF IInv, TypeOK
    <3>2. /\ version \in Nat
          /\ page[q].knows \in Nat
          /\ \A n \in DOMAIN page[q].requests : page[q].requests[n].at \in Nat
      <4>1. page[q] \in Components /\ version \in Nat
        BY DEF IInv, TypeOK
      <4>2. page[q].requests \in Seq(Requests) /\ page[q].knows \in Nat
        BY <4>1 DEF Components
      <4>3. \A n \in DOMAIN page[q].requests : page[q].requests[n] \in Requests
        BY <4>2
      <4>4. QED
        BY <4>1, <4>2, <4>3 DEF Requests
    <3>3. Known(page[q])'
      BY <3>1, <3>2 DEF PageOK, Known
    <3>4. Single(page[q])'
      BY <3>1 DEF PageOK, Single, Submissions
    <3>5. Fresh(page[q])'
      BY <3>1, <3>2 DEF PageOK, Known, Fresh, Listed
    <3>6. Honest(page[q])'
      BY <3>1 DEF PageOK, Honest, Submissions
    <3>7. QED
      BY <3>3, <3>4, <3>5, <3>6 DEF PageOK
  <2>3. QED
    BY <2>1, <2>2
<1>3. QED
  BY <1>1, <1>2 DEF IInv

\* A step of a page that leaves the table alone.
LEMMA OwnStep ==
  ASSUME IInv, NEW p \in Pages, NEW c \in Components,
         page' = [page EXCEPT ![p] = c],
         UNCHANGED <<table, version>>,
         asked' \in 0 .. MaxRequests, gets' \in 0 .. MaxGets,
         PageOK(c)
  PROVE  IInv'
<1>1. PageOK(c)'
  BY DEF PageOK, Known, Single, Fresh, Honest, Submissions, Listed
<1>2. table \in [Products -> Prices \cup {None, Gone}]
  BY DEF IInv, TypeOK
<1>3. QED
  BY <1>1, <1>2, PageStep

\* The fields of a page, once they are looked at one by one.
LEMMA PageFields ==
  ASSUME IInv, NEW p \in Pages
  PROVE  /\ page[p] \in Components
         /\ PageOK(page[p])
         /\ version \in Nat /\ asked \in 0 .. MaxRequests /\ gets \in 0 .. MaxGets
BY DEF IInv, TypeOK

-----------------------------------------------------------------------------
(* Each step keeps the invariant *)

LEMMA InitOK == Init => IInv
<1> SUFFICES ASSUME Init PROVE IInv
  OBVIOUS
<1>1. NgOnInit \in Components
  BY NoRowsOK, EmptySeqOK DEF NgOnInit, Components, Filters, NoFilter
<1>2. TypeOK
  BY <1>1, StockAssumption, LimitAssumption DEF Init, TypeOK
<1>3. PageOK(NgOnInit)
  BY DEF Init, PageOK, Known, Single, Fresh, Honest, Submissions, NgOnInit
<1>4. \A p \in Pages : page[p] = NgOnInit
  BY DEF Init
<1>5. QED
  BY <1>2, <1>3, <1>4 DEF IInv

LEMMA RefreshOK ==
  ASSUME IInv, NEW p \in Pages, Refresh(p)
  PROVE  IInv'
<1>1. PICK c : c = Get(page[p])
  OBVIOUS
<1>2. c \in Components
  BY <1>1, PageFields DEF Get, Components
<1>3. PageOK(c)
  BY <1>1, PageFields DEF Get, Components, PageOK, Known, Single, Fresh, Honest, Submissions
<1>4. gets' \in 0 .. MaxGets
  BY PageFields, LimitAssumption DEF Refresh
<1>5. page' = [page EXCEPT ![p] = c] /\ UNCHANGED <<table, version, asked>>
  BY <1>1 DEF Refresh
<1>6. QED
  BY <1>2, <1>3, <1>4, <1>5, PageFields, OwnStep

LEMMA SetFiltersOK ==
  ASSUME IInv, NEW p \in Pages, NEW min \in Filters, SetFilters(p, min)
  PROVE  IInv'
<1>1. PICK c : c = [page[p] EXCEPT !.filters = min]
  OBVIOUS
<1>2. c \in Components
  BY <1>1, PageFields DEF Components
<1>3. PageOK(c)
  BY <1>1, PageFields DEF Components, PageOK, Known, Single, Fresh, Honest, Submissions
<1>4. page' = [page EXCEPT ![p] = c] /\ UNCHANGED <<table, version, asked, gets>>
  BY <1>1 DEF SetFilters
<1>5. QED
  BY <1>2, <1>3, <1>4, PageFields, OwnStep

LEMMA HookToQueryOK ==
  ASSUME IInv, NEW p \in Pages, HookToQuery(p)
  PROVE  IInv'
<1>1. PICK q \in Queries : q = QueryOf(p) /\ q # None /\ q.step = "sent"
  BY QueryOfOK DEF IInv
<1>2. PICK c : c = [page[p] EXCEPT !.wanted = FALSE, !.query = q]
  OBVIOUS
<1>3. c \in Components
  BY <1>2, PageFields DEF Components
<1>4. PageOK(c)
  BY <1>1, <1>2, PageFields DEF Components, PageOK, Known, Single, Fresh, Honest, Submissions
<1>5. page' = [page EXCEPT ![p] = c] /\ UNCHANGED <<table, version, asked, gets>>
  BY <1>1, <1>2 DEF HookToQuery
<1>6. QED
  BY <1>3, <1>4, <1>5, PageFields, OwnStep

LEMMA GetListAsyncOK ==
  ASSUME IInv, NEW p \in Pages, GetListAsync(p)
  PROVE  IInv'
<1>1. PICK q \in Queries : q = page[p].query /\ q # None
  BY PageFields DEF GetListAsync, Components
<1>2. Listed(q.min) \in Rows
  BY ListedOK DEF IInv, Queries
<1>3. PICK r \in Queries :
        /\ page' = [page EXCEPT ![p] = [@ EXCEPT !.query = r]]
        /\ r.step = "ok" => r.items = Listed(r.min)
  <2>1. CASE page' = [page EXCEPT ![p].query.step = "ok",
                                  ![p].query.items = Listed(page[p].query.min)]
    <3>1. PICK r : r = [q EXCEPT !.step = "ok", !.items = Listed(q.min)]
      OBVIOUS
    <3>2. r \in Queries /\ r.items = Listed(r.min)
      BY <1>2, <3>1 DEF Queries
    <3>3. page' = [page EXCEPT ![p] = [@ EXCEPT !.query = r]]
      BY <1>1, <2>1, <3>1, PageFields DEF IInv, TypeOK, Components, Queries
    <3>4. QED
      BY <3>2, <3>3
  <2>2. CASE page' = [page EXCEPT ![p].query.step = "error"]
    <3>1. PICK r : r = [q EXCEPT !.step = "error"]
      OBVIOUS
    <3>2. r \in Queries /\ r.step = "error"
      BY <3>1 DEF Queries
    <3>3. page' = [page EXCEPT ![p] = [@ EXCEPT !.query = r]]
      BY <1>1, <2>2, <3>1, PageFields DEF IInv, TypeOK, Components, Queries
    <3>4. QED
      BY <3>2, <3>3
  <2>3. QED
    BY <2>1, <2>2 DEF GetListAsync
<1>4. r # None
  BY NoneAssumption
<1>5. PICK c : c = [page[p] EXCEPT !.query = r]
  OBVIOUS
<1>6. c \in Components
  BY <1>5, PageFields DEF Components
<1>7. PageOK(c)
  BY <1>3, <1>4, <1>5, PageFields DEF Components, PageOK, Known, Single, Fresh, Honest, Submissions
<1>8. page' = [page EXCEPT ![p] = c] /\ UNCHANGED <<table, version, asked, gets>>
  BY <1>3, <1>5 DEF GetListAsync
<1>9. QED
  BY <1>6, <1>7, <1>8, PageFields, OwnStep

LEMMA SetDataOK ==
  ASSUME IInv, NEW p \in Pages, SetData(p)
  PROVE  IInv'
<1>1. PICK q \in Queries : q = page[p].query /\ q # None /\ q.step # "sent"
  BY PageFields DEF SetData, Components
<1>2. UNCHANGED <<table, version, asked, gets>>
  BY DEF SetData
<1>3. CASE q.step = "ok"
  <2>1. PICK c : c = [page[p] EXCEPT !.query = None, !.failed = FALSE,
                                     !.data = q.items, !.min = q.min]
    OBVIOUS
  <2>2. q.items \in Rows /\ q.min \in Filters
    BY DEF Queries
  <2>3. c \in Components
    BY <2>1, <2>2, PageFields DEF Components
  <2>4. PageOK(c)
    BY <1>1, <1>3, <2>1, PageFields
       DEF Components, PageOK, Known, Single, Fresh, Honest, Submissions
  <2>5. page' = [page EXCEPT ![p] = c]
    BY <1>1, <1>3, <2>1 DEF SetData
  <2>6. QED
    BY <1>2, <2>3, <2>4, <2>5, PageFields, OwnStep
<1>4. CASE q.step # "ok"
  <2>1. PICK c : c = [page[p] EXCEPT !.query = None, !.failed = TRUE]
    OBVIOUS
  <2>2. c \in Components
    BY <2>1, PageFields DEF Components
  <2>3. PageOK(c)
    BY <2>1, PageFields DEF Components, PageOK, Known, Single, Fresh, Honest, Submissions
  <2>4. page' = [page EXCEPT ![p] = c]
    BY <1>1, <1>4, <2>1 DEF SetData
  <2>5. QED
    BY <1>2, <2>2, <2>3, <2>4, PageFields, OwnStep
<1>5. QED
  BY <1>3, <1>4

\* Opening a dialog where none is open: no submission is under way, unless one
\* dialog was submitted twice.
LEMMA ShowFormOK ==
  ASSUME NEW c \in Components, PageOK(c), ~c.isModalOpen,
         NEW id \in Products \cup {None}, NEW price \in Prices \cup {None}
  PROVE  /\ ShowForm(c, id, price) \in Components
         /\ PageOK(ShowForm(c, id, price))
<1>1. c.requests \in Seq(Requests)
  BY DEF Components
<1>2. PICK f : f = [n \in DOMAIN c.requests |-> [c.requests[n] EXCEPT !.own = FALSE]]
  OBVIOUS
<1>3. \A n \in DOMAIN c.requests : c.requests[n] \in Requests
  BY <1>1
<1>4. /\ f \in [DOMAIN c.requests -> Requests]
      /\ \A n \in DOMAIN c.requests :
           /\ f[n].kind = c.requests[n].kind
           /\ f[n].at = c.requests[n].at
  BY <1>2, <1>3 DEF Requests
<1>5. f \in Seq(Requests)
  BY <1>1, <1>4, MappedOK
<1>6. PICK d : d = ShowForm(c, id, price)
  OBVIOUS
<1>7. /\ d = [c EXCEPT !.selected = id, !.form = price, !.isModalOpen = TRUE,
                       !.requests = f]
      /\ d \in Components
  BY <1>2, <1>5, <1>6 DEF ShowForm, Components
<1>8. /\ DOMAIN d.requests = DOMAIN c.requests /\ d.requests = f
      /\ d.knows = c.knows /\ d.again = c.again /\ d.wanted = c.wanted
      /\ d.query = c.query /\ d.failed = c.failed /\ d.data = c.data /\ d.min = c.min
      /\ d.isModalOpen /\ d.isModalBusy = c.isModalBusy
  BY <1>4, <1>7 DEF Components
<1>9. Submissions(d) = Submissions(c)
  BY <1>4, <1>8 DEF Submissions
<1>10. Known(d)
  BY <1>4, <1>8 DEF PageOK, Known
<1>11. Single(d)
  BY <1>8, <1>9 DEF PageOK, Single
<1>12. Fresh(d)
  BY <1>8 DEF PageOK, Fresh
<1>13. Honest(d)
  BY <1>8, <1>9 DEF PageOK, Honest
<1>14. QED
  BY <1>6, <1>7, <1>10, <1>11, <1>12, <1>13 DEF PageOK

LEMMA CreateOK ==
  ASSUME IInv, NEW p \in Pages, Create(p)
  PROVE  IInv'
<1>1. PICK c : c = ShowForm(page[p], None, None)
  OBVIOUS
<1>2. c \in Components /\ PageOK(c)
  BY <1>1, PageFields, ShowFormOK DEF Create, Free
<1>3. page' = [page EXCEPT ![p] = c] /\ UNCHANGED <<table, version, asked, gets>>
  BY <1>1 DEF Create
<1>4. QED
  BY <1>2, <1>3, PageFields, OwnStep

LEMMA UpdateOK ==
  ASSUME IInv, NEW p \in Pages, NEW id \in Products, Update(p, id)
  PROVE  IInv'
<1>1. page[p].data[id] \in Prices \cup {None}
  BY PageFields DEF Components, Rows
<1>2. PICK c : c = ShowForm(page[p], id, page[p].data[id])
  OBVIOUS
<1>3. c \in Components /\ PageOK(c)
  BY <1>1, <1>2, PageFields, ShowFormOK DEF Update, Free
<1>4. page' = [page EXCEPT ![p] = c] /\ UNCHANGED <<table, version, asked, gets>>
  BY <1>2 DEF Update
<1>5. QED
  BY <1>3, <1>4, PageFields, OwnStep

\* A confirmation opened, or closed without a request.
LEMMA ConfirmingOK ==
  ASSUME IInv, NEW p \in Pages, NEW id \in Products \cup {None},
         page' = [page EXCEPT ![p].confirming = id],
         UNCHANGED <<table, version, asked, gets>>
  PROVE  IInv'
<1>1. PICK c : c = [page[p] EXCEPT !.confirming = id]
  OBVIOUS
<1>2. c \in Components
  BY <1>1, PageFields DEF Components
<1>3. PageOK(c)
  BY <1>1, PageFields DEF Components, PageOK, Known, Single, Fresh, Honest, Submissions
<1>4. page' = [page EXCEPT ![p] = c]
  BY <1>1
<1>5. QED
  BY <1>2, <1>3, <1>4, PageFields, OwnStep

LEMMA TypeKeyOK ==
  ASSUME IInv, NEW p \in Pages, NEW price \in Prices \cup {None}, Type(p, price)
  PROVE  IInv'
<1>1. PICK c : c = [page[p] EXCEPT !.form = price]
  OBVIOUS
<1>2. c \in Components
  BY <1>1, PageFields DEF Components
<1>3. PageOK(c)
  BY <1>1, PageFields DEF Components, PageOK, Known, Single, Fresh, Honest, Submissions
<1>4. page' = [page EXCEPT ![p] = c] /\ UNCHANGED <<table, version, asked, gets>>
  BY <1>1 DEF Type
<1>5. QED
  BY <1>2, <1>3, <1>4, PageFields, OwnStep

LEMMA CloseOK ==
  ASSUME IInv, NEW p \in Pages, Close(p)
  PROVE  IInv'
<1>1. PICK c : c = [page[p] EXCEPT !.isModalOpen = FALSE]
  OBVIOUS
<1>2. c \in Components
  BY <1>1, PageFields DEF Components
<1>3. PageOK(c)
  BY <1>1, PageFields DEF Close, Components, PageOK, Known, Single, Fresh, Honest, Submissions
<1>4. page' = [page EXCEPT ![p] = c] /\ UNCHANGED <<table, version, asked, gets>>
  BY <1>1 DEF Close
<1>5. QED
  BY <1>2, <1>3, <1>4, PageFields, OwnStep

LEMMA SubmitFormOK ==
  ASSUME IInv, NEW p \in Pages, SubmitForm(p)
  PROVE  IInv'
<1> DEFINE kind == IF page[p].selected = None THEN "create" ELSE "update"
<1>1. PICK r : r = Request(kind, page[p].selected, page[p].form)
  OBVIOUS
<1>2. /\ page[p] \in Components /\ page[p].requests \in Seq(Requests)
      /\ page[p].selected \in Products \cup {None}
      /\ page[p].form \in Prices \cup {None}
  BY PageFields DEF Components
<1>3. r \in Requests /\ r.kind # "delete" /\ r.own /\ r.at = 0
  BY <1>1, <1>2 DEF Request, Requests
<1>4. PICK s \in Seq(Requests) : s = Append(page[p].requests, r)
  BY <1>2, <1>3, AppendOK
<1>5. /\ DOMAIN s = 1 .. (Len(page[p].requests) + 1)
      /\ s[Len(page[p].requests) + 1] = r
      /\ \A k \in DOMAIN page[p].requests : s[k] = page[p].requests[k]
      /\ DOMAIN page[p].requests = 1 .. Len(page[p].requests)
      /\ Len(page[p].requests) \in Nat
  BY <1>2, <1>3, <1>4, AppendOK
<1>6. PICK more \in BOOLEAN :
        more = (page[p].again
                \/ \E n \in Submissions(page[p]) : page[p].requests[n].own)
  OBVIOUS
<1>7. PICK c : c = [page[p] EXCEPT !.requests = s, !.again = more, !.isModalBusy = TRUE]
  OBVIOUS
<1>8. c \in Components
  BY <1>2, <1>7 DEF Components
<1>9. /\ c.requests = s /\ c.again = more /\ c.isModalBusy
      /\ c.isModalOpen = page[p].isModalOpen /\ page[p].isModalOpen
      /\ c.knows = page[p].knows /\ c.wanted = page[p].wanted
      /\ c.query = page[p].query /\ c.failed = page[p].failed
      /\ c.data = page[p].data /\ c.min = page[p].min
  BY <1>2, <1>7 DEF SubmitForm, Components
<1>10. Known(c)
  BY <1>3, <1>5, <1>9, PageFields DEF PageOK, Known
<1>11. Single(c)
  <2> SUFFICES ASSUME ~c.again
               PROVE  /\ \A n \in Submissions(c) : c.requests[n].own
                      /\ \A m, n \in Submissions(c) : m = n
    BY <1>9 DEF Single
  <2>1. Submissions(page[p]) = {}
    BY <1>6, <1>9, PageFields DEF PageOK, Single
  <2>2. \A n \in Submissions(c) : n = Len(page[p].requests) + 1
    BY <1>5, <1>9, <2>1 DEF Submissions
  <2>3. QED
    BY <1>3, <1>5, <1>9, <2>2
<1>12. Fresh(c)
  BY <1>9, PageFields DEF PageOK, Fresh
<1>13. page' = [page EXCEPT ![p] = c]
  BY <1>1, <1>4, <1>6, <1>7 DEF SubmitForm, Submitted
<1>14. asked' \in 0 .. MaxRequests /\ UNCHANGED <<table, version, gets>>
  BY PageFields, LimitAssumption DEF SubmitForm
<1>15. Honest(c)
  <2>1. Len(page[p].requests) + 1 \in Submissions(c)
    BY <1>3, <1>5, <1>9 DEF Submissions
  <2>2. QED
    BY <1>9, <2>1 DEF Honest
<1>16. QED
  BY <1>8, <1>10, <1>11, <1>12, <1>13, <1>14, <1>15, PageFields, OwnStep DEF PageOK

LEMMA ConfirmOK ==
  ASSUME IInv, NEW p \in Pages, Confirm(p)
  PROVE  IInv'
<1>1. PICK r : r = Request("delete", page[p].confirming, None)
  OBVIOUS
<1>2. /\ page[p] \in Components /\ page[p].requests \in Seq(Requests)
      /\ page[p].confirming \in Products \cup {None}
  BY PageFields DEF Components
<1>3. r \in Requests /\ r.kind = "delete" /\ r.at = 0
  BY <1>1, <1>2 DEF Request, Requests
<1>4. PICK s \in Seq(Requests) : s = Append(page[p].requests, r)
  BY <1>2, <1>3, AppendOK
<1>5. /\ DOMAIN s = 1 .. (Len(page[p].requests) + 1)
      /\ s[Len(page[p].requests) + 1] = r
      /\ \A k \in DOMAIN page[p].requests : s[k] = page[p].requests[k]
      /\ DOMAIN page[p].requests = 1 .. Len(page[p].requests)
      /\ Len(page[p].requests) \in Nat
  BY <1>2, <1>3, <1>4, AppendOK
<1>6. PICK c : c = [page[p] EXCEPT !.confirming = None, !.requests = s]
  OBVIOUS
<1>7. c \in Components
  BY <1>2, <1>6 DEF Components
<1>8. /\ c.requests = s /\ c.again = page[p].again
      /\ c.isModalBusy = page[p].isModalBusy /\ c.isModalOpen = page[p].isModalOpen
      /\ c.knows = page[p].knows /\ c.wanted = page[p].wanted
      /\ c.query = page[p].query /\ c.failed = page[p].failed
      /\ c.data = page[p].data /\ c.min = page[p].min
  BY <1>2, <1>6 DEF Components
<1>9. Known(c)
  BY <1>3, <1>5, <1>8, PageFields DEF PageOK, Known
<1>10. /\ Submissions(c) = Submissions(page[p])
       /\ \A n \in Submissions(c) : c.requests[n] = page[p].requests[n]
  BY <1>3, <1>5, <1>8 DEF Submissions
<1>11. Single(c)
  <2>1. Single(page[p])
    BY PageFields DEF PageOK
  <2>2. QED
    BY <1>8, <1>10, <2>1 DEF Single
<1>12. Fresh(c)
  BY <1>8, PageFields DEF PageOK, Fresh
<1>13. page' = [page EXCEPT ![p] = c]
  <2>1. [page EXCEPT ![p].confirming = None, ![p].requests = s]
          = [page EXCEPT ![p] = c]
    BY <1>6 DEF IInv, TypeOK
  <2>2. QED
    BY <1>1, <1>4, <2>1 DEF Confirm
<1>14. asked' \in 0 .. MaxRequests /\ UNCHANGED <<table, version, gets>>
  BY PageFields, LimitAssumption DEF Confirm
<1>15. Honest(c)
  BY <1>8, <1>10, PageFields DEF PageOK, Honest
<1>16. QED
  BY <1>7, <1>9, <1>11, <1>12, <1>13, <1>14, <1>15, PageFields, OwnStep DEF PageOK

\* The service changes a row or two, and the table stays a table.
LEMMA PerformOK ==
  ASSUME TypeOK, NEW r, r.price \in Prices \cup {None}, Perform(r)
  PROVE  table' \in [Products -> Prices \cup {None, Gone}]
<1>1. table \in [Products -> Prices \cup {None, Gone}]
  BY DEF TypeOK
<1>2. CASE CreateAsync(r)
  BY <1>1, <1>2 DEF CreateAsync
<1>3. CASE UpdateAsync(r)
  BY <1>1, <1>3 DEF UpdateAsync
<1>4. CASE DeleteAsync(r)
  BY <1>1, <1>4 DEF DeleteAsync
<1>5. QED
  BY <1>2, <1>3, <1>4 DEF Perform

\* Another step and another number of the last change in one request.
LEMMA ServedOK ==
  ASSUME IInv, NEW p \in Pages, NEW n \in DOMAIN page[p].requests,
         NEW step \in {"ok", "error"}, NEW at \in Nat, at <= version',
         page' = [page EXCEPT ![p].requests[n] = [@ EXCEPT !.step = step, !.at = at]],
         table' \in [Products -> Prices \cup {None, Gone}],
         \/ version' = version /\ table' = table
         \/ version' = version + 1,
         UNCHANGED <<asked, gets>>
  PROVE  IInv'
<1>1. /\ page[p] \in Components /\ page[p].requests \in Seq(Requests)
      /\ page[p].requests[n] \in Requests
  BY PageFields DEF Components
<1>2. PICK r : r = [page[p].requests[n] EXCEPT !.step = step, !.at = at]
  OBVIOUS
<1>3. /\ r \in Requests /\ r.at = at
      /\ r.kind = page[p].requests[n].kind /\ r.own = page[p].requests[n].own
  BY <1>1, <1>2 DEF Requests
<1>4. PICK s : s = [page[p].requests EXCEPT ![n] = r]
  OBVIOUS
<1>5. /\ s \in Seq(Requests) /\ DOMAIN s = DOMAIN page[p].requests
      /\ s[n] = r
      /\ \A k \in DOMAIN s : k # n => s[k] = page[p].requests[k]
  BY <1>1, <1>3, <1>4
<1>6. PICK c : c = [page[p] EXCEPT !.requests = s]
  OBVIOUS
<1>7. c \in Components
  BY <1>1, <1>5, <1>6 DEF Components
<1>8. /\ c.requests = s /\ c.again = page[p].again
      /\ c.isModalBusy = page[p].isModalBusy /\ c.isModalOpen = page[p].isModalOpen
      /\ c.knows = page[p].knows /\ c.wanted = page[p].wanted
      /\ c.query = page[p].query /\ c.failed = page[p].failed
      /\ c.data = page[p].data /\ c.min = page[p].min
  BY <1>1, <1>6 DEF Components
<1>9. /\ version \in Nat /\ version' \in Nat /\ version <= version'
      /\ page[p].knows \in Nat
      /\ \A k \in DOMAIN page[p].requests : page[p].requests[k].at \in Nat
  <2>1. \A k \in DOMAIN page[p].requests : page[p].requests[k] \in Requests
    BY <1>1
  <2>2. QED
    BY <1>1, <2>1, PageFields DEF Components, Requests
<1>10. Known(page[p]) /\ Single(page[p]) /\ Fresh(page[p]) /\ Honest(page[p])
  BY PageFields DEF PageOK
<1>11. Known(c)'
  <2>1. /\ page[p].knows <= version
        /\ \A k \in DOMAIN page[p].requests : page[p].requests[k].at <= version
    BY <1>10 DEF Known
  <2>2. c.knows <= version'
    BY <1>8, <1>9, <2>1
  <2>3. ASSUME NEW k \in DOMAIN c.requests
        PROVE  c.requests[k].at <= version'
    <3>1. CASE k = n
      BY <1>3, <1>5, <1>8, <3>1
    <3>2. CASE k # n
      BY <1>5, <1>8, <1>9, <2>1, <3>2
    <3>3. QED
      BY <3>1, <3>2
  <2>4. QED
    BY <2>2, <2>3 DEF Known
<1>12. /\ Submissions(c) = Submissions(page[p])
       /\ \A k \in Submissions(c) : c.requests[k].own = page[p].requests[k].own
  BY <1>3, <1>5, <1>8 DEF Submissions
<1>13. Single(c)
  BY <1>8, <1>12, <1>10 DEF Single
<1>14. Single(c)'
  BY <1>13 DEF Single, Submissions
<1>15. Fresh(c)'
  <2>1. CASE version' = version /\ table' = table
    <3>1. Fresh(c)
      BY <1>8, <1>10 DEF Fresh
    <3>2. QED
      BY <2>1, <3>1 DEF Fresh, Listed
  <2>2. CASE version' = version + 1
    <3>1. page[p].knows <= version
      BY <1>10 DEF Known
    <3>2. c.knows # version'
      BY <1>8, <1>9, <2>2, <3>1
    <3>3. QED
      BY <3>2 DEF Fresh
  <2>3. QED
    BY <2>1, <2>2
<1>16. page' = [page EXCEPT ![p] = c]
  BY <1>2, <1>4, <1>6 DEF IInv, TypeOK
<1>17. Honest(c)'
  <2>1. Honest(c)
    BY <1>8, <1>12, <1>10 DEF Honest
  <2>2. QED
    BY <2>1 DEF Honest, Submissions
<1>18. QED
  BY <1>7, <1>11, <1>14, <1>15, <1>16, <1>17, PageFields, PageStep DEF PageOK

LEMMA ServeOK ==
  ASSUME IInv, NEW p \in Pages, NEW n \in DOMAIN page[p].requests, Serve(p, n)
  PROVE  IInv'
<1>1. /\ page[p].requests[n] \in Requests
      /\ version \in Nat
      /\ table \in [Products -> Prices \cup {None, Gone}]
  BY PageFields DEF Components, IInv, TypeOK
<1>2. UNCHANGED <<asked, gets>>
  BY DEF Serve
<1>3. CASE /\ Perform(page[p].requests[n])
           /\ version' = IF table' = table THEN version ELSE version + 1
           /\ \E step \in {"ok", "error"} :
                page' = [page EXCEPT ![p].requests[n] =
                          [@ EXCEPT !.step = step, !.at = version']]
  <2>1. PICK step \in {"ok", "error"} :
          page' = [page EXCEPT ![p].requests[n] = [@ EXCEPT !.step = step, !.at = version']]
    BY <1>3
  <2>2. table' \in [Products -> Prices \cup {None, Gone}]
    BY <1>1, <1>3, PerformOK DEF IInv, Requests
  <2>3. PICK at \in Nat : at = version'
    BY <1>1, <1>3
  <2>4. page' = [page EXCEPT ![p].requests[n] = [@ EXCEPT !.step = step, !.at = at]]
    BY <2>1, <2>3
  <2>5. \/ version' = version /\ table' = table
        \/ version' = version + 1
    BY <1>3
  <2>6. at <= version'
    BY <2>3
  <2>7. QED
    BY <1>2, <2>2, <2>4, <2>5, <2>6, ServedOK
<1>4. CASE /\ page' = [page EXCEPT ![p].requests[n].step = "error"]
           /\ UNCHANGED <<table, version>>
  <2>1. PICK at \in Nat : at = page[p].requests[n].at /\ at <= version
    BY <1>1, PageFields DEF Requests, PageOK, Known
  <2>2. page' = [page EXCEPT ![p].requests[n] = [@ EXCEPT !.step = "error", !.at = at]]
    BY <1>1, <1>4, <2>1 DEF IInv, TypeOK, Components, Requests
  <2>3. /\ at <= version'
        /\ table' \in [Products -> Prices \cup {None, Gone}]
        /\ version' = version /\ table' = table
    BY <1>1, <1>4, <2>1
  <2>4. PICK step \in {"ok", "error"} : step = "error"
    OBVIOUS
  <2>5. page' = [page EXCEPT ![p].requests[n] = [@ EXCEPT !.step = step, !.at = at]]
    BY <2>2, <2>4
  <2>6. QED
    BY <1>2, <2>3, <2>5, ServedOK
<1>5. QED
  BY <1>3, <1>4 DEF Serve

LEMMA OthersChangeOK ==
  ASSUME IInv, OthersChange
  PROVE  IInv'
<1>1. PICK kind \in {"create", "update", "delete"}, id \in Products, price \in Prices :
        Perform(Request(kind, id, price))
  BY DEF OthersChange
<1>2. table' \in [Products -> Prices \cup {None, Gone}]
  BY <1>1, PerformOK DEF IInv, Request
<1>3. /\ version \in Nat
      /\ \/ version' = version /\ table' = table
         \/ version' = version + 1
  BY DEF IInv, TypeOK, OthersChange
<1>4. asked' \in 0 .. MaxRequests /\ UNCHANGED <<page, gets>>
  BY LimitAssumption DEF IInv, TypeOK, OthersChange
<1>5. TypeOK'
  BY <1>2, <1>3, <1>4 DEF IInv, TypeOK
<1>6. ASSUME NEW p \in Pages
      PROVE  PageOK(page[p])'
  <2>1. /\ page[p].knows \in Nat
        /\ \A n \in DOMAIN page[p].requests : page[p].requests[n] \in Requests
    BY PageFields DEF Components
  <2>2. \A n \in DOMAIN page[p].requests : page[p].requests[n].at \in Nat
    BY <2>1 DEF Requests
  <2>3. Known(page[p]) /\ Single(page[p]) /\ Fresh(page[p]) /\ Honest(page[p])
    BY PageFields DEF PageOK
  <2>4. Known(page[p])'
    BY <1>3, <1>4, <2>1, <2>2, <2>3 DEF Known
  <2>5. Single(page[p])'
    BY <1>4, <2>3 DEF Single, Submissions
  <2>6. Fresh(page[p])'
    <3>1. CASE version' = version /\ table' = table
      BY <1>4, <2>3, <3>1 DEF Fresh, Listed
    <3>2. CASE version' = version + 1
      <4>1. page'[p].knows # version'
        BY <1>3, <1>4, <2>1, <2>3, <3>2 DEF Known
      <4>2. QED
        BY <4>1 DEF Fresh
    <3>3. QED
      BY <1>3, <3>1, <3>2
  <2>7. Honest(page[p])'
    BY <1>4, <2>3 DEF Honest, Submissions
  <2>8. QED
    BY <2>4, <2>5, <2>6, <2>7 DEF PageOK
<1>7. QED
  BY <1>5, <1>6 DEF IInv

\* A page without one of its requests is as good as before, but for a submission
\* that its dialog waits for.
LEMMA WithoutOK ==
  ASSUME IInv, NEW p \in Pages, NEW n \in DOMAIN page[p].requests
  PROVE  LET c == [page[p] EXCEPT !.requests = RemoveAt(@, n)] IN
         /\ c \in Components
         /\ Known(c) /\ Single(c) /\ Fresh(c)
         /\ page[p].requests[n].kind = "delete" => Honest(c)
         /\ page[p].requests[n].kind # "delete" /\ ~c.again => Submissions(c) = {}
<1>1. page[p] \in Components /\ page[p].requests \in Seq(Requests)
  BY PageFields DEF Components
<1>2. PICK s \in Seq(Requests) :
        /\ s = RemoveAt(page[p].requests, n)
        /\ \A k \in DOMAIN s :
             \E m \in DOMAIN page[p].requests :
               m # n /\ (m = k \/ m = k + 1) /\ s[k] = page[p].requests[m]
        /\ \A k, j \in DOMAIN s : k # j =>
             \E m, l \in DOMAIN page[p].requests :
               m # l /\ s[k] = page[p].requests[m] /\ s[j] = page[p].requests[l]
        /\ \A m \in DOMAIN page[p].requests : m # n =>
             \E k \in DOMAIN s : s[k] = page[p].requests[m]
  <2>1. /\ n \in 1 .. Len(page[p].requests) /\ Len(page[p].requests) \in Nat
        /\ DOMAIN page[p].requests = 1 .. Len(page[p].requests)
    BY <1>1
  <2>2. PICK s : s = RemoveAt(page[p].requests, n)
    OBVIOUS
  <2>3. /\ s \in Seq(Requests)
        /\ DOMAIN s = 1 .. (Len(page[p].requests) - 1)
        /\ \A k \in 1 .. (Len(page[p].requests) - 1) :
             s[k] = page[p].requests[IF k < n THEN k ELSE k + 1]
    BY <1>1, <2>2, RemoveAtOK
  <2>4. ASSUME NEW k \in DOMAIN s
        PROVE  /\ (IF k < n THEN k ELSE k + 1) \in DOMAIN page[p].requests
               /\ (IF k < n THEN k ELSE k + 1) # n
    BY <2>1, <2>3
  <2>5. ASSUME NEW k \in DOMAIN s, NEW j \in DOMAIN s, k # j
        PROVE  (IF k < n THEN k ELSE k + 1) # (IF j < n THEN j ELSE j + 1)
    BY <2>1, <2>3, <2>5
  <2>6. ASSUME NEW k \in DOMAIN s
        PROVE  \E m \in DOMAIN page[p].requests :
                 m # n /\ (m = k \/ m = k + 1) /\ s[k] = page[p].requests[m]
    <3>1. s[k] = page[p].requests[IF k < n THEN k ELSE k + 1]
      BY <2>3
    <3>2. QED
      BY <2>4, <3>1
  <2>7. ASSUME NEW k \in DOMAIN s, NEW j \in DOMAIN s, k # j
        PROVE  \E m, l \in DOMAIN page[p].requests :
                 m # l /\ s[k] = page[p].requests[m] /\ s[j] = page[p].requests[l]
    <3>1. /\ s[k] = page[p].requests[IF k < n THEN k ELSE k + 1]
          /\ s[j] = page[p].requests[IF j < n THEN j ELSE j + 1]
      BY <2>3
    <3>2. QED
      BY <2>4, <2>5, <2>7, <3>1
  <2>8. ASSUME NEW m \in DOMAIN page[p].requests, m # n
        PROVE  \E k \in DOMAIN s : s[k] = page[p].requests[m]
    <3>1. PICK k \in Int : k = IF m < n THEN m ELSE m - 1
      BY <2>1
    <3>2. k \in DOMAIN s /\ (IF k < n THEN k ELSE k + 1) = m
      BY <2>1, <2>3, <2>8, <3>1
    <3>3. QED
      BY <2>3, <3>2
  <2>9. QED
    BY <2>2, <2>3, <2>6, <2>7, <2>8
<1>3. PICK c : c = [page[p] EXCEPT !.requests = s]
  OBVIOUS
<1>4. c \in Components
  BY <1>1, <1>3 DEF Components
<1>5. /\ c.requests = s /\ c.again = page[p].again
      /\ c.isModalBusy = page[p].isModalBusy /\ c.isModalOpen = page[p].isModalOpen
      /\ c.knows = page[p].knows /\ c.wanted = page[p].wanted
      /\ c.query = page[p].query /\ c.failed = page[p].failed
      /\ c.data = page[p].data /\ c.min = page[p].min
  BY <1>1, <1>3 DEF Components
<1>6. Known(page[p]) /\ Single(page[p]) /\ Fresh(page[p])
  BY PageFields DEF PageOK
<1>7. Known(c)
  BY <1>2, <1>5, <1>6 DEF Known
<1>8. Fresh(c)
  BY <1>5, <1>6 DEF Fresh
<1>9. ASSUME ~c.again
      PROVE  /\ \A k \in Submissions(c) : c.requests[k].own
             /\ \A k, j \in Submissions(c) : k = j
             /\ Submissions(c) # {} => c.isModalOpen /\ c.isModalBusy
             /\ page[p].requests[n].kind # "delete" => Submissions(c) = {}
  <2>1. /\ \A k \in Submissions(page[p]) : page[p].requests[k].own
        /\ \A k, j \in Submissions(page[p]) : k = j
        /\ Submissions(page[p]) # {} => page[p].isModalOpen /\ page[p].isModalBusy
    BY <1>5, <1>6, <1>9 DEF Single
  <2>2. \A k \in Submissions(c) :
          \E m \in Submissions(page[p]) : m # n /\ s[k] = page[p].requests[m]
    BY <1>2, <1>5 DEF Submissions
  <2>3. \A k, j \in Submissions(c) : k = j
    BY <1>2, <1>5, <2>1 DEF Submissions
  <2>4. page[p].requests[n].kind # "delete" => n \in Submissions(page[p])
    BY DEF Submissions
  <2>5. QED
    BY <1>5, <2>1, <2>2, <2>3, <2>4
<1>10. Single(c)
  BY <1>9 DEF Single
<1>11. c = [page[p] EXCEPT !.requests = RemoveAt(@, n)]
  BY <1>2, <1>3
<1>12. page[p].requests[n].kind = "delete" => Honest(c)
  <2> SUFFICES ASSUME page[p].requests[n].kind = "delete", page[p].isModalBusy
               PROVE  page[p].isModalOpen /\ Submissions(c) # {}
    BY <1>5 DEF Honest
  <2>1. page[p].isModalOpen /\ Submissions(page[p]) # {}
    BY PageFields DEF PageOK, Honest
  <2>2. PICK m \in DOMAIN page[p].requests : m # n /\ page[p].requests[m].kind # "delete"
    BY <2>1 DEF Submissions
  <2>3. PICK k \in DOMAIN s : s[k] = page[p].requests[m]
    BY <1>2, <2>2
  <2>4. QED
    BY <1>5, <2>1, <2>2, <2>3 DEF Submissions
<1>13. QED
  BY <1>4, <1>7, <1>8, <1>9, <1>10, <1>11, <1>12

LEMMA AnsweredOK ==
  ASSUME IInv, NEW p \in Pages, NEW n \in DOMAIN page[p].requests, Answered(p, n)
  PROVE  IInv'
<1>1. PICK c : c = [page[p] EXCEPT !.requests = RemoveAt(@, n)]
  OBVIOUS
<1>2. PICK r : r = page[p].requests[n]
  OBVIOUS
<1>3. /\ c \in Components
      /\ Known(c) /\ Single(c) /\ Fresh(c)
      /\ r.kind = "delete" => Honest(c)
      /\ r.kind # "delete" /\ ~c.again => Submissions(c) = {}
  BY <1>1, <1>2, WithoutOK
<1>4. r \in Requests /\ r.at \in Nat /\ r.at <= version /\ version \in Nat
  <2>1. r \in Requests
    BY <1>2, PageFields DEF Components
  <2>2. QED
    BY <1>2, <2>1, PageFields DEF Requests, PageOK, Known
<1>5. PICK d : d = IF r.step = "ok" THEN NextOf(c, r) ELSE c
  OBVIOUS
<1>6. /\ d \in Components
      /\ d.requests = c.requests /\ d.again = c.again
      /\ d.isModalBusy = c.isModalBusy
      /\ r.kind = "delete" => d.isModalOpen = c.isModalOpen
      /\ d.knows <= version
      /\ Fresh(d)
  <2>1. CASE r.step = "ok" /\ r.kind = "delete"
    <3>1. d = [c EXCEPT !.wanted = TRUE, !.knows = IF r.at > c.knows THEN r.at ELSE c.knows]
      BY <1>3, <1>5, <2>1 DEF NextOf, Get, Tapped, Components
    <3>2. QED
      BY <1>3, <1>4, <3>1 DEF Components, Known, Fresh
  <2>2. CASE r.step = "ok" /\ r.kind # "delete"
    <3>1. d = [c EXCEPT !.isModalOpen = FALSE, !.form = None, !.wanted = TRUE,
                        !.knows = IF r.at > c.knows THEN r.at ELSE c.knows]
      BY <1>3, <1>5, <2>2 DEF NextOf, Get, Tapped, HideForm, Components
    <3>2. QED
      BY <1>3, <1>4, <2>2, <3>1 DEF Components, Known, Fresh
  <2>3. CASE r.step # "ok"
    BY <1>3, <1>5, <2>3 DEF Known
  <2>4. QED
    BY <2>1, <2>2, <2>3
<1>7. Known(d)
  BY <1>3, <1>6 DEF Known
<1>8. PICK e : e = Finalized(d, r)
  OBVIOUS
<1>9. /\ e \in Components
      /\ e.requests = d.requests /\ e.again = d.again
      /\ e.isModalOpen = d.isModalOpen
      /\ r.kind = "delete" => e.isModalBusy = d.isModalBusy
      /\ r.kind # "delete" => ~e.isModalBusy
      /\ e.knows = d.knows /\ e.wanted = d.wanted
      /\ e.query = d.query /\ e.failed = d.failed
      /\ e.data = d.data /\ e.min = d.min
  BY <1>6, <1>8 DEF Finalized, Components
<1>10. Known(e) /\ Fresh(e)
  BY <1>6, <1>7, <1>9 DEF Known, Fresh
<1>11. Submissions(e) = Submissions(c)
  BY <1>6, <1>9 DEF Submissions
<1>12. Single(e)
  <2>1. CASE r.kind = "delete"
    BY <1>3, <1>6, <1>9, <1>11, <2>1 DEF Single
  <2>2. CASE r.kind # "delete"
    BY <1>3, <1>6, <1>9, <1>11, <2>2 DEF Single
  <2>3. QED
    BY <2>1, <2>2
<1>13. page' = [page EXCEPT ![p] = e] /\ UNCHANGED <<table, version, asked, gets>>
  BY <1>1, <1>2, <1>5, <1>8 DEF Answered
<1>14. Honest(e)
  BY <1>3, <1>6, <1>9, <1>11 DEF Honest
<1>15. QED
  BY <1>9, <1>10, <1>12, <1>13, <1>14, PageFields, OwnStep DEF PageOK

-----------------------------------------------------------------------------
(* The theorems *)

\* Every step keeps the invariant.
LEMMA NextOK == IInv /\ [Next]_vars => IInv'
<1> SUFFICES ASSUME IInv, [Next]_vars PROVE IInv'
  OBVIOUS
<1>1. CASE UNCHANGED vars
  BY <1>1 DEF vars, IInv, TypeOK, PageOK, Known, Single, Fresh, Honest, Submissions, Listed
<1>2. CASE OthersChange
  BY <1>2, OthersChangeOK
<1>3. ASSUME NEW p \in Pages, User(p)
      PROVE  IInv'
  <2>1. CASE Refresh(p)
    BY <2>1, RefreshOK
  <2>2. CASE Create(p)
    BY <2>2, CreateOK
  <2>3. CASE Close(p)
    BY <2>3, CloseOK
  <2>4. CASE SubmitForm(p)
    BY <2>4, SubmitFormOK
  <2>5. CASE Reject(p)
    BY <2>5, ConfirmingOK DEF Reject
  <2>6. CASE Confirm(p)
    BY <2>6, ConfirmOK
  <2>7. CASE \E min \in Filters : SetFilters(p, min)
    BY <2>7, SetFiltersOK
  <2>8. CASE \E id \in Products : Update(p, id)
    BY <2>8, UpdateOK
  <2>9. CASE \E id \in Products : Delete(p, id)
    BY <2>9, ConfirmingOK DEF Delete
  <2>10. CASE \E price \in Prices \cup {None} : Type(p, price)
    BY <2>10, TypeKeyOK
  <2>11. QED
    BY <1>3, <2>1, <2>2, <2>3, <2>4, <2>5, <2>6, <2>7, <2>8, <2>9, <2>10 DEF User
<1>4. ASSUME NEW p \in Pages, HookToQuery(p)
      PROVE  IInv'
  BY <1>4, HookToQueryOK
<1>5. ASSUME NEW p \in Pages, GetListAsync(p)
      PROVE  IInv'
  BY <1>5, GetListAsyncOK
<1>6. ASSUME NEW p \in Pages, SetData(p)
      PROVE  IInv'
  BY <1>6, SetDataOK
<1>7. ASSUME NEW p \in Pages, Requested(p)
      PROVE  IInv'
  BY <1>7, ServeOK, AnsweredOK DEF Requested
<1>8. QED
  BY <1>1, <1>2, <1>3, <1>4, <1>5, <1>6, <1>7 DEF Next

\* The strengthened invariant holds in every state.
THEOREM Invariance == Spec => []IInv
BY InitOK, NextOK, PTL DEF Spec

\* The types hold for every number of pages, products, changes and refreshes.
THEOREM TypeCorrect == Spec => []TypeOK
<1>1. IInv => TypeOK
  BY DEF IInv
<1>2. QED
  BY <1>1, Invariance, PTL

\* In whatever order its queries and changes end, a page at rest that was told
\* of the last change of the table shows the table.
THEOREM PageShowsOwnChanges == Spec => []ShowsOwnChanges
<1>1. IInv => ShowsOwnChanges
  BY DEF IInv, PageOK, Fresh, ShowsOwnChanges
<1>2. QED
  BY <1>1, Invariance, PTL

\* No answer closes a dialog that it was not submitted from, unless a busy
\* dialog was submitted again.
THEOREM SubmissionClosesOwnDialog == Spec => []ClosesOwnDialog
<1>1. IInv => ClosesOwnDialog
  BY DEF IInv, PageOK, Single, ClosesOwnDialog
<1>2. QED
  BY <1>1, Invariance, PTL

\* A busy dialog always waits for a submission that will free it, and, unless a
\* dialog is submitted twice, a dialog is busy as long as its submission lasts.
THEOREM BusyMeansSubmission == Spec => []BusyTellsSubmission
<1>1. IInv => BusyTellsSubmission
  BY DEF IInv, PageOK, Honest, Single, BusyTellsSubmission
<1>2. QED
  BY <1>1, Invariance, PTL

=============================================================================
