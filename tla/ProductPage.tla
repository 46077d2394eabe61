----------------------------- MODULE ProductPage -----------------------------
(***************************************************************************)
(* The product page of the Angular application (ProductComponent), open in *)
(* several browsers over one product service (ProductAppService).          *)
(*                                                                         *)
(* A page shows the rows that its last list query brought, and edits one   *)
(* row in a dialog.  Its HTTP requests end in any order, some with an      *)
(* error, and their callbacks run on whatever the page shows by then.  The *)
(* framework's ListService sends a list query some time after list.get was *)
(* called, and drops the answer of the query before it (switchMap).        *)
(*                                                                         *)
(* A price stands for all that a form holds, a least price for all filters.*)
(***************************************************************************)
EXTENDS Naturals, Sequences, SequencesExt

CONSTANTS
  Pages,       \* browsers with the page open
  Products,    \* identifiers of products
  Prices,      \* prices
  MinPrices,   \* the least prices that users filter by
  Stock,       \* the table at first
  None,        \* JavaScript's undefined or null; an identifier not in use
  Gone,        \* what a deleted product leaves
  MaxRequests, \* bound on the changes that users and other clients ask for
  MaxGets      \* bound on the users' refreshes

ASSUME PricesAssumption ==
  Prices \cup MinPrices \subseteq Nat \ {0} /\ {None, Gone} \cap Nat = {}
ASSUME StockAssumption == Stock \in [Products -> Prices \cup {None}]
ASSUME LimitAssumption == {MaxRequests, MaxGets} \subseteq Nat

VARIABLES
  table,    \* the product table
  version,  \* how often the table changed
  page,     \* the component of each page
  asked,    \* how many changes were asked for
  gets      \* how often users refreshed

vars == <<table, version, page, asked, gets>>

NoFilter == 0
Filters == MinPrices \cup {NoFilter}

\* What a list query answers.
Listed(min) ==
  [id \in Products |->
    IF table[id] \notin {None, Gone} /\ table[id] >= min THEN table[id] ELSE None]

Rows == [Products -> Prices \cup {None}]

\* A list query, and a request to create, update or delete a product.  The field
\* own is history: whether the dialog that a request was submitted from is still
\* the page's last one.
Queries == [step: {"sent", "ok", "error"}, min: Filters, items: Rows]
Requests ==
  [kind: {"create", "update", "delete"}, id: Products \cup {None},
   price: Prices \cup {None}, step: {"sent", "ok", "error"}, at: Nat,
   own: BOOLEAN]

ASSUME NoneAssumption == None \notin Queries

\* Fields of ProductComponent; confirming is the product of an open
\* confirmation.  Of ListService: wanted, a query waits for its delay; query,
\* the one under way; min, the filters of the data; failed, requestStatus is
\* "error".  knows and again are history: the last change whose answer the page
\* got, and whether any dialog was submitted while a submission was under way.
Components ==
  [data: Rows, filters: Filters, form: Prices \cup {None},
   selected: Products \cup {None}, isModalOpen: BOOLEAN, isModalBusy: BOOLEAN,
   confirming: Products \cup {None}, requests: Seq(Requests),
   wanted: BOOLEAN, query: Queries \cup {None}, min: Filters, failed: BOOLEAN,
   knows: Nat, again: BOOLEAN]

Free(p) == ~page[p].isModalOpen /\ page[p].confirming = None

-----------------------------------------------------------------------------
(* The list *)

\* list.get, as a callback and as the Refresh button.
Get(c) == [c EXCEPT !.wanted = TRUE]

Refresh(p) ==
  /\ gets < MaxGets
  /\ gets' = gets + 1
  /\ page' = [page EXCEPT ![p] = Get(@)]
  /\ UNCHANGED <<table, version, asked>>

\* The filter fields and clearFilters, which sends no query.
SetFilters(p, min) ==
  /\ Free(p)
  /\ page' = [page EXCEPT ![p].filters = min]
  /\ UNCHANGED <<table, version, asked, gets>>

QueryOf(p) ==
  [step |-> "sent", min |-> page[p].filters, items |-> [id \in Products |-> None]]

HookToQueryOnce(p) ==
  /\ page[p].wanted
  /\ page' = [page EXCEPT ![p].wanted = FALSE,
                          ![p].query = IF @ = None THEN QueryOf(p) ELSE @]
  /\ UNCHANGED <<table, version, asked, gets>>

\* getData reads the filters when the delay is over; a query still under way
\* is given up.
HookToQuery(p) ==
  /\ page[p].wanted
  /\ page' = [page EXCEPT ![p].wanted = FALSE, ![p].query = QueryOf(p)]
  /\ UNCHANGED <<table, version, asked, gets>>

GetListAsync(p) ==
  /\ page[p].query # None /\ page[p].query.step = "sent"
  /\ \/ page' = [page EXCEPT ![p].query.step = "ok",
                             ![p].query.items = Listed(page[p].query.min)]
     \/ page' = [page EXCEPT ![p].query.step = "error"]
  /\ UNCHANGED <<table, version, asked, gets>>

\* An error leaves the data as it was.
SetData(p) ==
  LET q == page[p].query IN
  /\ q # None /\ q.step # "sent"
  /\ page' = [page EXCEPT ![p] =
       IF q.step = "ok"
       THEN [@ EXCEPT !.query = None, !.failed = FALSE, !.data = q.items, !.min = q.min]
       ELSE [@ EXCEPT !.query = None, !.failed = TRUE]]
  /\ UNCHANGED <<table, version, asked, gets>>

-----------------------------------------------------------------------------
(* The dialogs *)

Submissions(c) == {n \in DOMAIN c.requests : c.requests[n].kind # "delete"}

\* What was submitted from an earlier dialog is no longer the page's own.
ShowForm(c, id, price) ==
  [c EXCEPT !.selected = id, !.form = price, !.isModalOpen = TRUE,
            !.requests = [n \in DOMAIN @ |-> [@[n] EXCEPT !.own = FALSE]]]

HideFormToZero(c) == [c EXCEPT !.isModalOpen = FALSE, !.form = 0]

HideForm(c) == [c EXCEPT !.isModalOpen = FALSE, !.form = None]

Create(p) ==
  /\ Free(p)
  /\ page' = [page EXCEPT ![p] = ShowForm(@, None, None)]
  /\ UNCHANGED <<table, version, asked, gets>>

\* The row's button in the list as it is shown, which may be out of date.
Update(p, id) ==
  /\ Free(p)
  /\ page[p].data[id] # None
  /\ page' = [page EXCEPT ![p] = ShowForm(@, id, @.data[id])]
  /\ UNCHANGED <<table, version, asked, gets>>

Delete(p, id) ==
  /\ Free(p)
  /\ page[p].data[id] # None
  /\ page' = [page EXCEPT ![p].confirming = id]
  /\ UNCHANGED <<table, version, asked, gets>>

Type(p, price) ==
  /\ page[p].isModalOpen
  /\ page' = [page EXCEPT ![p].form = price]
  /\ UNCHANGED <<table, version, asked, gets>>

CloseBusy(p) ==
  /\ page[p].isModalOpen
  /\ page' = [page EXCEPT ![p].isModalOpen = FALSE]
  /\ UNCHANGED <<table, version, asked, gets>>

\* abpClose; a busy modal stays open.
Close(p) ==
  /\ page[p].isModalOpen /\ ~page[p].isModalBusy
  /\ page' = [page EXCEPT ![p].isModalOpen = FALSE]
  /\ UNCHANGED <<table, version, asked, gets>>

Request(kind, id, price) ==
  [kind |-> kind, id |-> id, price |-> price, step |-> "sent", at |-> 0,
   own |-> kind # "delete"]

\* c with one more submission of its dialog.
Submitted(c) ==
  LET kind == IF c.selected = None THEN "create" ELSE "update" IN
  [c EXCEPT !.requests = Append(@, Request(kind, c.selected, c.form)),
            !.again = @ \/ \E n \in Submissions(c) : c.requests[n].own]

SubmitFormIdly(p) ==
  /\ page[p].isModalOpen /\ page[p].form # None
  /\ asked < MaxRequests
  /\ asked' = asked + 1
  /\ page' = [page EXCEPT ![p] = Submitted(@)]
  /\ UNCHANGED <<table, version, gets>>

\* By the Save button, or by Enter in the form, which isModalBusy does not
\* disable.
SubmitForm(p) ==
  /\ page[p].isModalOpen /\ page[p].form # None
  /\ asked < MaxRequests
  /\ asked' = asked + 1
  /\ page' = [page EXCEPT ![p] = [Submitted(@) EXCEPT !.isModalBusy = TRUE]]
  /\ UNCHANGED <<table, version, gets>>

Reject(p) ==
  /\ page[p].confirming # None
  /\ page' = [page EXCEPT ![p].confirming = None]
  /\ UNCHANGED <<table, version, asked, gets>>

Confirm(p) ==
  /\ page[p].confirming # None
  /\ asked < MaxRequests
  /\ asked' = asked + 1
  /\ page' = [page EXCEPT ![p].confirming = None,
       ![p].requests = Append(@, Request("delete", page[p].confirming, None))]
  /\ UNCHANGED <<table, version, gets>>

-----------------------------------------------------------------------------
(* The service *)

CreateAsync(r) ==
  \E id \in Products : table[id] = None /\ table' = [table EXCEPT ![id] = r.price]

\* The row is found and saved with its concurrency stamp, so that an update
\* that succeeds is one step.  Nothing compares it with the row the user saw.
UpdateAsync(r) ==
  table[r.id] # Gone /\ table' = [table EXCEPT ![r.id] = r.price]

\* Deleting what is gone succeeds too.
DeleteAsync(r) == table' = [table EXCEPT ![r.id] = Gone]

Perform(r) ==
  \/ r.kind = "create" /\ CreateAsync(r)
  \/ r.kind = "update" /\ UpdateAsync(r)
  \/ r.kind = "delete" /\ DeleteAsync(r)

\* A request is performed, and answered or its answer lost, or it fails.
Serve(p, n) ==
  LET r == page[p].requests[n] IN
  /\ r.step = "sent"
  /\ \/ /\ Perform(r)
        /\ version' = IF table' = table THEN version ELSE version + 1
        /\ \E step \in {"ok", "error"} :
             page' = [page EXCEPT ![p].requests[n] =
                       [@ EXCEPT !.step = step, !.at = version']]
     \/ /\ page' = [page EXCEPT ![p].requests[n].step = "error"]
        /\ UNCHANGED <<table, version>>
  /\ UNCHANGED <<asked, gets>>

\* Another client, such as the pages of the MVC front end.
OthersChange ==
  /\ asked < MaxRequests
  /\ asked' = asked + 1
  /\ \E kind \in {"create", "update", "delete"}, id \in Products, price \in Prices :
       /\ kind # "create" => table[id] # None
       /\ Perform(Request(kind, id, price))
  /\ version' = IF table' = table THEN version ELSE version + 1
  /\ UNCHANGED <<page, gets>>

-----------------------------------------------------------------------------
(* The callbacks of an answer *)

FinalizedOnSuccess(c, r) ==
  IF r.kind = "delete" \/ r.step = "error" THEN c ELSE [c EXCEPT !.isModalBusy = FALSE]

\* finalize, which runs after an answer and after an error.
Finalized(c, r) == IF r.kind = "delete" THEN c ELSE [c EXCEPT !.isModalBusy = FALSE]

\* tap(hideForm), of a submission only.
Tapped(c, r) == IF r.kind = "delete" THEN c ELSE HideForm(c)

\* subscribe(list.get).
NextWithoutGet(c, r) ==
  [Tapped(c, r) EXCEPT !.knows = IF r.at > @ THEN r.at ELSE @]
NextOf(c, r) ==
  [Get(Tapped(c, r)) EXCEPT !.knows = IF r.at > @ THEN r.at ELSE @]

Answered(p, n) ==
  LET r == page[p].requests[n]
      c == [page[p] EXCEPT !.requests = RemoveAt(@, n)]
  IN
  /\ r.step # "sent"
  /\ page' = [page EXCEPT ![p] =
       Finalized(IF r.step = "ok" THEN NextOf(c, r) ELSE c, r)]
  /\ UNCHANGED <<table, version, asked, gets>>

-----------------------------------------------------------------------------
(* The specification *)

NgOnInit ==
  [data |-> [id \in Products |-> None], filters |-> NoFilter, form |-> None,
   selected |-> None, isModalOpen |-> FALSE, isModalBusy |-> FALSE,
   confirming |-> None, requests |-> <<>>,
   wanted |-> TRUE, query |-> None, min |-> NoFilter, failed |-> FALSE, knows |-> 0,
   again |-> FALSE]

Init ==
  /\ table = Stock
  /\ version = 0
  /\ page = [p \in Pages |-> NgOnInit]
  /\ asked = 0 /\ gets = 0

User(p) ==
  \/ Refresh(p) \/ Create(p) \/ Close(p) \/ SubmitForm(p) \/ Reject(p) \/ Confirm(p)
  \/ \E min \in Filters : SetFilters(p, min)
  \/ \E id \in Products : Update(p, id) \/ Delete(p, id)
  \/ \E price \in Prices \cup {None} : Type(p, price)

Requested(p) ==
  \E n \in DOMAIN page[p].requests : Serve(p, n) \/ Answered(p, n)

Next ==
  \/ OthersChange
  \/ \E p \in Pages :
       User(p) \/ HookToQuery(p) \/ GetListAsync(p) \/ SetData(p) \/ Requested(p)

\* The browser's timer fires, and a request ends, with an answer or an error.
\* Users need do nothing.
Fairness ==
  \A p \in Pages :
    /\ WF_vars(HookToQuery(p))
    /\ WF_vars(GetListAsync(p) \/ SetData(p))
    /\ WF_vars(Requested(p))

Spec == Init /\ [][Next]_vars /\ Fairness

-----------------------------------------------------------------------------
(* Properties *)

\* Type invariant.
TypeOK ==
  /\ table \in [Products -> Prices \cup {None, Gone}]
  /\ version \in Nat
  /\ page \in [Pages -> Components]
  /\ asked \in 0 .. MaxRequests
  /\ gets \in 0 .. MaxGets

\* When no query is due or under way, a page shows each change it made itself
\* and was told of: if nobody changed the table since, it shows the table under
\* the filters of its query, in whatever order its queries and changes ended.
ShowsOwnChanges ==
  \A p \in Pages :
    LET c == page[p] IN
    ~c.wanted /\ c.query = None /\ ~c.failed /\ c.knows = version =>
      c.data = Listed(c.min)

\* The callback of a submission closes whatever dialog is open.  This is the
\* dialog it was submitted from, on a page where no dialog was ever submitted
\* twice: a busy dialog is closed by nothing else, and none is opened over it.
ClosesOwnDialog ==
  \A p \in Pages : ~page[p].again =>
    \A n \in Submissions(page[p]) : page[p].requests[n].own

\* A busy dialog can be neither closed nor left.  It is open, and busy with a
\* submission whose answer is to come, which frees it; and as long as no dialog
\* is submitted twice, none is free while its submission is under way.  This holds
\* however the answers and errors of other requests come in between.
BusyTellsSubmission ==
  \A p \in Pages :
    LET c == page[p] IN
    /\ c.isModalBusy => c.isModalOpen /\ Submissions(c) # {}
    /\ ~c.again /\ Submissions(c) # {} => c.isModalBusy

\* No dialog stays busy, whether its submission succeeds, fails or is lost.
NotStuck ==
  \A p \in Pages : page[p].isModalBusy ~> ~page[p].isModalBusy

\* A page comes to show its own change, unless the list fails or somebody
\* changes the table again.
ShowsEventually ==
  \A p \in Pages :
    page[p].knows = version ~>
      \/ page[p].knows # version \/ page[p].failed
      \/ page[p].data = Listed(page[p].min)

=============================================================================
