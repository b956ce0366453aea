----------------------- MODULE ExploreControllerProofs -----------------------
(***************************************************************************)
(* What is proved of the controller.                                       *)
(*                                                                         *)
(* For any number of workers that share it without a lock: its types, what *)
(* the handle holds when a request reaches each step (InFlight, which      *)
(* TypeOK needs to be inductive), that the pages before the one that is    *)
(* loaded stay as they are, the contract of its observer, and that full    *)
(* pages stay whole.                                                       *)
(*                                                                         *)
(* For one worker (Serial): what the cache holds, what was shown and what  *)
(* is held agree (SerialInv).                                              *)
(***************************************************************************)
EXTENDS ExploreController, TLAPS

-----------------------------------------------------------------------------
(* What the operators of PagedList return, for every item_per_page, every  *)
(* radix and every list.                                                   *)

\* The first slot of a page is an integer position.
LEMMA OffType ==
  ASSUME NEW p \in Int PROVE Off(p) \in Int
BY PagedListAssumption DEF Off

\* Parsing a body yields photos of the body's page and version.
LEMMA DetailsType ==
  ASSUME NEW b \in Body \cup {NoBody}
  PROVE  /\ Details(b) \in Seq(Photo)
         /\ Len(Details(b)) = b.size
         /\ \A i \in 1..b.size :
              Details(b)[i] = [page |-> b.page, ver |-> b.ver, idx |-> i]
<1>1. b.size \in Nat
  BY PagedListAssumption DEF Body, NoBody
<1>2. b.size <= ItemPerPage
  BY PagedListAssumption DEF Body, NoBody
<1>3. \A i \in 1..b.size :
        [page |-> b.page, ver |-> b.ver, idx |-> i] \in Photo
  <2>1. CASE b \in Body
    BY <2>1, <1>1, <1>2, PagedListAssumption DEF Body, Photo
  <2>2. CASE b = NoBody
    BY <2>2 DEF NoBody
  <2> QED BY <2>1, <2>2
<1> QED BY <1>1, <1>3 DEF Details

\* A merge that overwrites keeps the length and the type of the list.
LEMMA OverwriteType ==
  ASSUME NEW list \in Seq(Photo), NEW p \in Int, NEW new \in Seq(Photo)
  PROVE  /\ Overwrite(list, p, new) \in Seq(Photo)
         /\ Len(Overwrite(list, p, new)) = Len(list)
<1> DEFINE slot(i) == IF i > Off(p) /\ i <= Off(p) + Len(new)
                        THEN new[i - Off(p)] ELSE list[i]
<1>1. Off(p) \in Int
  BY OffType
<1>2. ASSUME NEW i \in 1..Len(list) PROVE slot(i) \in Photo
  <2>1. CASE i > Off(p) /\ i <= Off(p) + Len(new)
    <3>1. i - Off(p) \in 1..Len(new)
      BY <2>1, <1>1
    <3> QED BY <2>1, <3>1
  <2>2. CASE ~(i > Off(p) /\ i <= Off(p) + Len(new))
    BY <2>2
  <2> QED BY <2>1, <2>2
<1>3. Overwrite(list, p, new) = [i \in 1..Len(list) |-> slot(i)]
  BY DEF Overwrite
<1> HIDE DEF slot
<1> QED BY <1>2, <1>3

\* Both branches of the merge return a list of photos.
LEMMA MergeType ==
  ASSUME NEW list \in Seq(Photo), NEW p \in Int, NEW new \in Seq(Photo)
  PROVE  Merge(list, p, new) \in Seq(Photo)
BY OverwriteType DEF Merge

\* A merge for page p never drops a slot, and leaves the slots before those of
\* page p as they are.
LEMMA MergeKeepsEarlier ==
  ASSUME NEW list \in Seq(Photo), NEW p \in Int, NEW new \in Seq(Photo)
  PROVE  /\ Len(list) <= Len(Merge(list, p, new))
         /\ \A i \in 1..Len(list) :
              i <= Off(p) => Merge(list, p, new)[i] = list[i]
<1>1. Off(p) \in Int
  BY OffType
<1>2. CASE Len(list) >= p * ItemPerPage
  <2>1. Merge(list, p, new) = Overwrite(list, p, new)
    BY <1>2 DEF Merge
  <2>2. \A i \in 1..Len(list) :
          i <= Off(p) => Overwrite(list, p, new)[i] = list[i]
    BY <1>1 DEF Overwrite
  <2> QED BY <2>1, <2>2, OverwriteType
<1>3. CASE ~(Len(list) >= p * ItemPerPage)
  <2>1. Merge(list, p, new) = list \o new
    BY <1>3 DEF Merge
  <2> QED BY <2>1
<1> QED BY <1>2, <1>3

\* The page that on_success reads back is an integer, and it is the page that
\* was requested as long as its number has one digit.
LEMMA PageOfType ==
  ASSUME NEW p \in Nat
  PROVE  /\ PageOf(p) \in Int
         /\ p < Radix => PageOf(p) = p
<1>1. Radix \in Nat /\ Radix > 0
  BY PagedListAssumption
<1>2. Radix * Radix \in Nat /\ Radix * Radix > 0
  BY <1>1
<1>3. p \div Radix \in Int
  BY <1>1
<1>4. p \div (Radix * Radix) \in Int
  <2> DEFINE r == Radix * Radix
  <2>1. r \in Nat /\ r > 0
    BY <1>2
  <2> HIDE DEF r
  <2>2. p \div r \in Int
    BY <2>1
  <2> QED BY <2>2 DEF r
<1> QED BY <1>3, <1>4 DEF PageOf

\* A merge takes every photo from the list, at its place, or from the page.
LEMMA MergeFrom ==
  ASSUME NEW list \in Seq(Photo), NEW p \in Int, NEW new \in Seq(Photo),
         NEW i \in 1..Len(Merge(list, p, new))
  PROVE  \/ i \in 1..Len(list) /\ Merge(list, p, new)[i] = list[i]
         \/ \E j \in 1..Len(new) : Merge(list, p, new)[i] = new[j]
<1>1. Off(p) \in Int
  BY OffType
<1>2. CASE Len(list) >= p * ItemPerPage
  <2>1. Merge(list, p, new) = Overwrite(list, p, new)
    BY <1>2 DEF Merge
  <2>2. i \in 1..Len(list)
    BY <2>1, OverwriteType
  <2>3. CASE i > Off(p) /\ i <= Off(p) + Len(new)
    <3>1. i - Off(p) \in 1..Len(new)
      BY <1>1, <2>3
    <3>2. Overwrite(list, p, new)[i] = new[i - Off(p)]
      BY <2>2, <2>3 DEF Overwrite
    <3> QED BY <2>1, <3>1, <3>2
  <2>4. CASE ~(i > Off(p) /\ i <= Off(p) + Len(new))
    <3>1. Overwrite(list, p, new)[i] = list[i]
      BY <2>2, <2>4 DEF Overwrite
    <3> QED BY <2>1, <2>2, <3>1
  <2> QED BY <2>3, <2>4
<1>3. CASE ~(Len(list) >= p * ItemPerPage)
  <2>1. Merge(list, p, new) = list \o new
    BY <1>3 DEF Merge
  <2>2. CASE i <= Len(list)
    BY <2>1, <2>2
  <2>3. CASE i > Len(list)
    <3>1. i - Len(list) \in 1..Len(new) /\ (list \o new)[i] = new[i - Len(list)]
      BY <2>1, <2>3
    <3> QED BY <2>1, <3>1
  <2> QED BY <2>2, <2>3
<1> QED BY <1>2, <1>3

-----------------------------------------------------------------------------
(* Type correctness *)

Inv == TypeOK /\ InFlight

\* The start of the process satisfies the invariant.
LEMMA InitInv == Init => Inv
<1> SUFFICES ASSUME Init PROVE Inv
  OBVIOUS
<1>1. 0 \in Version
  BY PagedListAssumption DEF Version
<1>2. db \in [Page -> Body \cup {NoBody}]
  BY DEF Init
<1>3. handle \in [url: Page \cup {0}, sink: Worker \cup {NoOne},
                 busy: Worker \cup {NoOne}, fetch: Page \cup {0}]
  BY DEF Init, Fresh, FreshHandle
<1>4. view \in [error: BOOLEAN, items: Seq(Photo)]
  BY DEF Init, Fresh, NoView
<1>5. pc \in [Worker -> Step] /\ \A w \in Worker : pc[w] = "idle"
  BY DEF Init, Fresh, Step
<1>6. body \in [Worker -> Body \cup {NoBody}]
  BY DEF Init, Fresh
<1>7. TypeOK
  BY <1>1, <1>2, <1>3, <1>4, <1>5, <1>6 DEF Init, Fresh, TypeOK
<1>8. InFlight
  BY <1>5 DEF InFlight
<1> QED BY <1>7, <1>8 DEF Inv

\* The death of the process restores it.
LEMMA DieInv == Inv /\ Die => Inv'
<1> SUFFICES ASSUME Inv, Die PROVE Inv'
  OBVIOUS
<1>1. handle' \in [url: Page \cup {0}, sink: Worker \cup {NoOne},
                  busy: Worker \cup {NoOne}, fetch: Page \cup {0}]
  BY DEF Die, FreshHandle
<1>2. view' \in [error: BOOLEAN, items: Seq(Photo)]
  BY DEF Die, NoView
<1>3. pc' \in [Worker -> Step] /\ \A w \in Worker : pc'[w] = "idle"
  BY DEF Die, Step
<1>4. body' \in [Worker -> Body \cup {NoBody}]
  BY DEF Die
<1>5. db' \in [Page -> Body \cup {NoBody}] /\ live' \in Version
  BY DEF Die, Inv, TypeOK
<1>6. items' \in Seq(Photo)
  BY DEF Die
<1>7. /\ page' \in [Worker -> Page \cup {0}]
      /\ heard' \in [Worker -> {"quiet", "begun", "told"}]
      /\ alive' \in BOOLEAN
      /\ observer' \in BOOLEAN
  BY DEF Die
<1>8. TypeOK'
  BY <1>1, <1>2, <1>3, <1>4, <1>5, <1>6, <1>7 DEF TypeOK
<1>9. InFlight'
  BY <1>3 DEF InFlight
<1> QED BY <1>8, <1>9 DEF Inv

\* What the observer is shown is an error flag and a list.
LEMMA ViewType ==
  ASSUME NEW e \in BOOLEAN, NEW list \in Seq(Photo)
  PROVE  [error |-> e, items |-> list] \in [error: BOOLEAN, items: Seq(Photo)]
OBVIOUS

\* What a merge of the cache or of a response may leave in items_.
LEMMA MergedType ==
  ASSUME TypeOK, NEW w \in Worker, NEW p \in Int, NEW b \in Body \cup {NoBody},
         items' \in Merged(w, p, Details(b))
  PROVE  items' \in Seq(Photo)
<1>1. Merge(items, p, Details(b)) \in Seq(Photo)
  BY MergeType, DetailsType DEF TypeOK
<1> QED BY <1>1 DEF Merged, TypeOK

LEMMA RequestInv ==
  ASSUME NEW w \in Worker, NEW p \in Page, Inv, Request(w, p) PROVE Inv'
BY DEF Request, At, Goto, Inv, TypeOK, InFlight, Step

LEMMA ResetInv ==
  ASSUME NEW w \in Worker, Inv, Reset(w) PROVE Inv'
<1>1. items' \in {<<>>, items}
  BY DEF Reset, Cleared
<1>2. items \in Seq(Photo) /\ <<>> \in Seq(Photo)
  BY DEF Inv, TypeOK
<1>3. items' \in Seq(Photo)
  BY <1>1, <1>2
<1> QED BY <1>3 DEF Reset, At, Inv, TypeOK, InFlight

LEMMA BeginUpdateInv ==
  ASSUME NEW w \in Worker, Inv, BeginUpdate(w) PROVE Inv'
BY DEF BeginUpdate, Hear, At, Goto, Inv, TypeOK, InFlight, Step

LEMMA ReadCacheInv ==
  ASSUME NEW w \in Worker, Inv, ReadCache(w) PROVE Inv'
<1>1. page[w] \in Page
  BY DEF ReadCache, At, Inv, InFlight
<1>2. body' \in [Worker -> Body \cup {NoBody}]
  BY <1>1 DEF ReadCache, Inv, TypeOK
<1> QED BY <1>2 DEF ReadCache, At, Goto, Inv, TypeOK, InFlight, Step

LEMMA MergeCacheInv ==
  ASSUME NEW w \in Worker, Inv, MergeCache(w) PROVE Inv'
<1>1. page[w] \in Int
  BY PagedListAssumption DEF MergeCache, At, Inv, InFlight, Page
<1>2. body[w] \in Body \cup {NoBody}
  BY DEF Inv, TypeOK
<1>3. items' \in Seq(Photo)
  BY <1>1, <1>2, MergedType DEF MergeCache, Inv
<1>4. body' \in [Worker -> Body \cup {NoBody}]
  BY DEF MergeCache, Inv, TypeOK
<1> QED BY <1>3, <1>4 DEF MergeCache, At, Goto, Inv, TypeOK, InFlight, Step

LEMMA ShowCacheInv ==
  ASSUME NEW w \in Worker, Inv, ShowCache(w) PROVE Inv'
BY DEF ShowCache, Hear, At, Goto, Inv, TypeOK, InFlight, Step

LEMMA SetUrlInv ==
  ASSUME NEW w \in Worker, Inv, SetUrl(w) PROVE Inv'
BY DEF SetUrl, At, Goto, Inv, TypeOK, InFlight, Step

LEMMA SetSinkInv ==
  ASSUME NEW w \in Worker, Inv, SetSink(w) PROVE Inv'
BY DEF SetSink, At, Goto, Inv, TypeOK, InFlight, Step

LEMMA PerformInv ==
  ASSUME NEW w \in Worker, Inv, Perform(w) PROVE Inv'
BY ExploreAssumption DEF Perform, At, Goto, Inv, TypeOK, InFlight, Step

LEMMA RefusedInv ==
  ASSUME NEW w \in Worker, Inv, Refused(w) PROVE Inv'
BY DEF Refused, At, Goto, Inv, TypeOK, InFlight, Step

\* The text of an answer is a body, torn or not.
LEMMA TextType ==
  ASSUME NEW w \in Worker, Inv, pc[w] = "transfer", NEW n \in 0..ItemPerPage
  PROVE  /\ [page |-> handle.fetch, ver |-> live, size |-> n] \in Body
         /\ Torn([page |-> handle.fetch, ver |-> live, size |-> n]) \in Body
<1>1. handle.fetch \in Page /\ live \in Version
  BY DEF Inv, TypeOK, InFlight
<1>2. 0 \in 0..ItemPerPage
  BY PagedListAssumption
<1>3. Torn([page |-> handle.fetch, ver |-> live, size |-> n])
        = [page |-> handle.fetch, ver |-> live, size |-> 0]
  BY DEF Torn
<1> QED BY <1>1, <1>2, <1>3 DEF Body

\* What a stream holds after an answer of the same transfer.
LEMMA WrittenType ==
  ASSUME NEW old \in Body \cup {NoBody}, NEW text \in Body, Torn(text) \in Body
  PROVE  Written(old, text) \in Body
BY DEF Written

\* A response written into the stream of another worker.
LEMMA SpilledType ==
  ASSUME Inv, NEW text \in Body, Torn(text) \in Body, handle.sink \in Worker
  PROVE  Spilled(text) \in [Worker -> Body \cup {NoBody}]
BY DEF Spilled, Inv, TypeOK

\* The end of a transfer frees the handle; nobody else was transferring.
LEMMA ReleasedInv ==
  ASSUME NEW w \in Worker, NEW to \in Step \ {"sink", "perform", "transfer"},
         Inv, pc[w] = "transfer",
         Goto(w, to), handle' = Released,
         body' \in [Worker -> Body \cup {NoBody}],
         UNCHANGED <<alive, observer, items, db, live, page, view, heard>>
  PROVE  Inv'
<1>1. handle \in [url: Page \cup {0}, sink: Worker \cup {NoOne},
                 busy: Worker \cup {NoOne}, fetch: Page \cup {0}]
  BY DEF Inv, TypeOK
<1>2. /\ handle' \in [url: Page \cup {0}, sink: Worker \cup {NoOne},
                     busy: Worker \cup {NoOne}, fetch: Page \cup {0}]
      /\ handle'.url = handle.url
      /\ handle'.sink = handle.sink
  BY <1>1 DEF Released
<1>3. TypeOK'
  BY <1>2 DEF Inv, TypeOK, Goto
<1>4. \A v \in Worker : pc'[v] # "transfer"
  BY DEF Inv, TypeOK, InFlight, Goto
<1>5. \A v \in Worker : pc'[v] \in {"sink", "perform"} => pc'[v] = pc[v]
  BY DEF Inv, TypeOK, Goto
<1>6. \A v \in Worker : pc'[v] # "idle" => page'[v] \in Page
  BY DEF Inv, TypeOK, InFlight, Goto
<1>7. InFlight'
  BY <1>2, <1>4, <1>5, <1>6 DEF Inv, InFlight
<1> QED BY <1>3, <1>7 DEF Inv

LEMMA AnswerInv ==
  ASSUME NEW w \in Worker, NEW n \in Sizes, Inv, Answer(w, n) PROVE Inv'
<1> DEFINE text == [page |-> handle.fetch, ver |-> live, size |-> n]
<1>1. pc[w] = "transfer" /\ handle.sink \in Worker
  BY DEF Answer, At, Inv, InFlight
<1>2. text \in Body /\ Torn(text) \in Body
  BY <1>1, TextType, ExploreAssumption
<1>3. body \in [Worker -> Body \cup {NoBody}]
  BY DEF Inv, TypeOK
<1>4. body' = [body EXCEPT ![w] = Written(body[w], text)]
        \/ body' = [Spilled(text) EXCEPT ![w] = Torn(text)]
  BY DEF Answer
<1> HIDE DEF text
<1>5. Written(body[w], text) \in Body
  BY <1>2, <1>3, WrittenType
<1>6. Spilled(text) \in [Worker -> Body \cup {NoBody}]
  BY <1>1, <1>2, SpilledType
<1>7. body' \in [Worker -> Body \cup {NoBody}]
  BY <1>2, <1>3, <1>4, <1>5, <1>6
<1> QED BY <1>1, <1>7, ReleasedInv DEF Answer, Step

LEMMA HttpFailInv ==
  ASSUME NEW w \in Worker, Inv, HttpFail(w) PROVE Inv'
<1> DEFINE text == [page |-> handle.fetch, ver |-> live, size |-> 0]
<1>1. pc[w] = "transfer" /\ handle.sink \in Worker
  BY DEF HttpFail, At, Inv, InFlight
<1>2. text \in Body /\ Torn(text) \in Body
  BY <1>1, TextType, PagedListAssumption
<1>3. body' = body \/ body' = Spilled(text)
  BY DEF HttpFail
<1> HIDE DEF text
<1>4. body' \in [Worker -> Body \cup {NoBody}]
  BY <1>1, <1>2, <1>3, SpilledType DEF Inv, TypeOK
<1> QED BY <1>1, <1>4, ReleasedInv DEF HttpFail, Step

LEMMA SucceedInv ==
  ASSUME NEW w \in Worker, Inv, Succeed(w) PROVE Inv'
<1>1. page[w] \in Nat
  BY PagedListAssumption DEF Succeed, At, Inv, InFlight, Page
<1>2. body[w] \in Body \cup {NoBody}
  BY DEF Inv, TypeOK
<1>3. items' \in Seq(Photo)
  BY <1>1, <1>2, PageOfType, MergedType DEF Succeed, Inv
<1> QED BY <1>3 DEF Succeed, At, Goto, Inv, TypeOK, InFlight, Step

\* An update leaves the observer with an error flag and the list.
LEMMA ShowInv ==
  ASSUME NEW w \in Worker, Inv, ShowAnswer(w) \/ ShowError(w) PROVE Inv'
<1>1. view' \in [error: BOOLEAN, items: Seq(Photo)]
  BY ViewType DEF ShowAnswer, ShowError, Inv, TypeOK
<1> QED BY <1>1 DEF ShowAnswer, ShowError, Hear, At, Goto, Inv, TypeOK, InFlight,
                    Step

LEMMA FailInv ==
  ASSUME NEW w \in Worker, Inv, Fail(w) PROVE Inv'
BY DEF Fail, Return, At, Goto, Inv, TypeOK, InFlight, Step

LEMMA EndUpdateInv ==
  ASSUME NEW w \in Worker, Inv, EndUpdate(w) PROVE Inv'
<1>1. CASE pc[w] = "ending"
  BY <1>1 DEF EndUpdate, Hear, At, Goto, Inv, TypeOK, InFlight, Step
<1>2. CASE pc[w] = "aborting"
  BY <1>2 DEF EndUpdate, Hear, Return, At, Goto, Inv, TypeOK, InFlight, Step
<1> QED BY <1>1, <1>2 DEF EndUpdate, At

LEMMA SaveInv ==
  ASSUME NEW w \in Worker, Inv, Save(w) PROVE Inv'
<1>1. db' \in [Page -> Body \cup {NoBody}]
  BY DEF Save, Inv, TypeOK
<1> QED BY <1>1 DEF Save, Return, At, Goto, Inv, TypeOK, InFlight, Step

\* A step of a running request.
LEMMA ContinueInv ==
  ASSUME NEW w \in Worker, Inv, Continue(w) PROVE Inv'
BY BeginUpdateInv, ReadCacheInv, MergeCacheInv, ShowCacheInv, DieInv, SetUrlInv, SetSinkInv,
   PerformInv, RefusedInv, AnswerInv, HttpFailInv, SucceedInv, ShowInv,
   FailInv, EndUpdateInv, SaveInv
   DEF Continue, NullCall

\* The steps of the main thread, of the server and of the system.
LEMMA UnsubscribeInv == Inv /\ Unsubscribe => Inv'
BY DEF Unsubscribe, Inv, TypeOK, InFlight

LEMMA ChangeInv == Inv /\ Change => Inv'
BY PagedListAssumption DEF Change, Inv, TypeOK, InFlight, Version

LEMMA LaunchInv == Inv /\ Launch => Inv'
BY DEF Launch, Inv, TypeOK, InFlight

\* The induction step.
LEMMA NextInv == Inv /\ [Next]_vars => Inv'
<1> SUFFICES ASSUME Inv, [Next]_vars PROVE Inv'
  OBVIOUS
<1>1. ASSUME NEW w \in Worker, NEW p \in Page, Request(w, p) PROVE Inv'
  BY <1>1, RequestInv
<1>2. ASSUME NEW w \in Worker, Reset(w) PROVE Inv'
  BY <1>2, ResetInv
<1>3. ASSUME NEW w \in Worker, Continue(w) PROVE Inv'
  BY <1>3, ContinueInv
<1>4. CASE Unsubscribe
  BY <1>4, UnsubscribeInv
<1>5. CASE Change
  BY <1>5, ChangeInv
<1>6. CASE Crash
  BY <1>6, DieInv DEF Crash
<1>7. CASE Launch
  BY <1>7, LaunchInv
<1>8. CASE UNCHANGED vars
  BY <1>8 DEF vars, Inv, TypeOK, InFlight
<1> QED BY <1>1, <1>2, <1>3, <1>4, <1>5, <1>6, <1>7, <1>8 DEF Next

-----------------------------------------------------------------------------
\* The controller is type correct, and a running request finds in the shared
\* handle what its next step needs, for any number of workers, of pages and of
\* photos per page (cpp/src/explore_controller.cpp, cpp/src/utility.cpp).
THEOREM InvCorrect == Spec => []Inv
<1>1. Init => Inv
  BY InitInv
<1>2. Inv /\ [Next]_vars => Inv'
  BY NextInv
<1> QED BY <1>1, <1>2, PTL DEF Spec

\* In particular every variable keeps its type.
THEOREM TypeCorrect == Spec => []TypeOK
<1>1. Inv => TypeOK
  BY DEF Inv
<1> QED BY <1>1, InvCorrect, PTL

-----------------------------------------------------------------------------
(* Loading a page leaves the earlier pages as they are.                    *)

\* A step that merges for the page that was requested keeps the slots before
\* that page, also when the merge is lost to a race.
LEMMA MergedKeepsEarlier ==
  ASSUME TypeOK, NEW w \in Worker, NEW p \in Int, NEW b \in Body \cup {NoBody},
         items' \in Merged(w, p, Details(b)),
         NEW i \in 1..Len(items), i <= Off(p)
  PROVE  i <= Len(items') /\ items'[i] = items[i]
<1>1. items \in Seq(Photo) /\ Details(b) \in Seq(Photo)
  BY DetailsType DEF TypeOK
<1>2. CASE items' = items
  BY <1>1, <1>2
<1>3. CASE items' = Merge(items, p, Details(b))
  BY <1>1, <1>3, MergeKeepsEarlier, MergeType
<1> QED BY <1>2, <1>3 DEF Merged

\* A step that loads a page keeps the slots before it.
LEMMA EarlierKeptStep ==
  ASSUME MaxPage < Radix, Inv, NEW w \in Worker, MergeCache(w) \/ Succeed(w)
  PROVE  EarlierKept(w)
<1>1. page[w] \in Page
  BY DEF MergeCache, Succeed, At, Inv, InFlight
<1>2. page[w] \in Nat /\ page[w] < Radix
  BY <1>1, PagedListAssumption DEF Page
<1>3. TypeOK /\ body[w] \in Body \cup {NoBody}
  BY DEF Inv, TypeOK
<1>4. PageOf(page[w]) = page[w]
  BY <1>2, PageOfType
<1>5. items' \in Merged(w, page[w], Details(body[w]))
  BY <1>4 DEF MergeCache, Succeed
<1> QED BY <1>2, <1>3, <1>5, MergedKeepsEarlier DEF EarlierKept

\* Loading a page, from the cache or from the server, leaves the slots of the
\* pages before it as they are, for any number of workers and whatever the
\* handle delivers, as long as no page number has two digits (on_success reads
\* the page back as one digit, explore_controller.cpp:95).
THEOREM EarlierPagesKeptCorrect ==
  ASSUME MaxPage < Radix PROVE Spec => EarlierPagesKept
<1>1. Inv => [\A w \in Worker : MergeCache(w) \/ Succeed(w) => EarlierKept(w)]_vars
  BY EarlierKeptStep
<1> QED BY <1>1, InvCorrect, PTL DEF EarlierPagesKept

-----------------------------------------------------------------------------
(* The controller implements the contract of its observer.                 *)

\* What the observer heard of a request, at each of its steps.
Heard(w) ==
  /\ pc[w] \in {"idle", "begin", "saving"} => heard[w] = "quiet"
  /\ pc[w] \in {"reading", "merging", "cached"} => heard[w] = "begun"
  /\ pc[w] \notin {"idle", "begin", "saving", "reading", "merging", "cached"}
       => heard[w] = "told"

\* The observer is up to date while there is one, and a process that is not
\* running has neither an observer nor a request.
ContractInv ==
  /\ observer => alive /\ \A w \in Worker : Heard(w)
  /\ ~alive => /\ heard = [w \in Worker |-> "quiet"]
               /\ view = NoView
               /\ \A w \in Worker : pc[w] = "idle"

LEMMA ContractInvInit == Init => ContractInv
BY DEF Init, Fresh, ContractInv, Heard

LEMMA ContractInvDie == Die => ContractInv'
BY DEF Die, ContractInv

\* One step of a running request.
LEMMA ContractInvContinue ==
  ASSUME NEW w \in Worker, Inv, ContractInv, Continue(w)
  PROVE  ContractInv'
<1>1. /\ pc \in [Worker -> Step]
      /\ heard \in [Worker -> {"quiet", "begun", "told"}]
  BY DEF Inv, TypeOK
<1> USE <1>1 DEF ContractInv, Heard, At, Goto
<1>2. CASE BeginUpdate(w)
  BY <1>2 DEF BeginUpdate, Hear
<1>3. CASE ReadCache(w) \/ MergeCache(w)
  BY <1>3 DEF ReadCache, MergeCache
<1>4. CASE ShowCache(w)
  BY <1>4 DEF ShowCache, Hear
<1>5. CASE NullCall(w)
  BY <1>5, ContractInvDie DEF NullCall
<1>6. CASE SetUrl(w) \/ SetSink(w) \/ Perform(w) \/ Refused(w)
  BY <1>6 DEF SetUrl, SetSink, Perform, Refused
<1>7. ASSUME alive, pc[w] = "transfer",
             Goto(w, "answered") \/ Goto(w, "failed"),
             UNCHANGED <<alive, observer, view, heard>>
      PROVE  ContractInv'
  BY <1>7
<1>12. CASE \E n \in Sizes : Answer(w, n)
  BY <1>7, <1>12 DEF Answer
<1>13. CASE HttpFail(w)
  BY <1>7, <1>13 DEF HttpFail
<1>8. CASE Succeed(w) \/ Fail(w)
  BY <1>8 DEF Succeed, Fail, Return
<1>9. CASE ShowAnswer(w) \/ ShowError(w)
  BY <1>9 DEF ShowAnswer, ShowError, Hear
<1>10. CASE EndUpdate(w)
  BY <1>10 DEF EndUpdate, Hear, Return
<1>11. CASE Save(w)
  BY <1>11 DEF Save, Return
<1> QED BY <1>2, <1>3, <1>4, <1>5, <1>6, <1>8, <1>9, <1>10, <1>11, <1>12, <1>13
        DEF Continue

LEMMA ContractInvNext == Inv /\ ContractInv /\ [Next]_vars => ContractInv'
<1> SUFFICES ASSUME Inv, ContractInv, [Next]_vars PROVE ContractInv'
  OBVIOUS
<1>1. pc \in [Worker -> Step]
  BY DEF Inv, TypeOK
<1>2. ASSUME NEW w \in Worker, NEW p \in Page, Request(w, p) PROVE ContractInv'
  BY <1>1, <1>2 DEF Request, ContractInv, Heard, At, Goto
<1>3. ASSUME NEW w \in Worker, Reset(w) PROVE ContractInv'
  BY <1>3 DEF Reset, ContractInv, Heard, At
<1>4. ASSUME NEW w \in Worker, Continue(w) PROVE ContractInv'
  BY <1>4, ContractInvContinue
<1>5. CASE Unsubscribe
  BY <1>5 DEF Unsubscribe, ContractInv
<1>6. CASE Change
  BY <1>6 DEF Change, ContractInv, Heard
<1>7. CASE Crash
  BY <1>7, ContractInvDie DEF Crash
<1>8. CASE Launch
  BY <1>8 DEF Launch, ContractInv, Heard
<1>9. CASE UNCHANGED vars
  BY <1>9 DEF vars, ContractInv, Heard
<1> QED BY <1>2, <1>3, <1>4, <1>5, <1>6, <1>7, <1>8, <1>9 DEF Next

\* The initial state maps to the initial state of the contract.
LEMMA ContractStart == Init => Contract!ContractInit
BY DEF Init, Fresh, Contract!ContractInit, Contract!Silence

\* A step of a request maps to a callback, to the end of the process, or to
\* nothing the observer can tell.
LEMMA ContractContinue ==
  ASSUME NEW w \in Worker, Inv, ContractInv, Inv', Continue(w)
  PROVE  [Contract!ContractNext]_(Contract!contractVars)
<1> USE DEF Contract!contractVars
<1>1. CASE BeginUpdate(w)
  <2>1. Contract!Begin(w)
    BY <1>1 DEF BeginUpdate, Hear, At, ContractInv, Heard, Contract!Begin
  <2> QED BY <2>1 DEF Contract!ContractNext
<1>2. ASSUME observer, heard[w] \in {"begun", "told"}, Hear(w, "told"),
             observer' = observer
      PROVE  Contract!Tell(w)
  BY <1>2 DEF Hear, Contract!Tell, Inv, TypeOK
<1>3. CASE ShowCache(w) \/ ShowAnswer(w) \/ ShowError(w)
  <2>1. Contract!Tell(w)
    BY <1>2, <1>3 DEF ShowCache, ShowAnswer, ShowError, At, ContractInv, Heard
  <2> QED BY <2>1 DEF Contract!ContractNext
<1>4. CASE NullCall(w)
  <2>1. Contract!Stop
    BY <1>4 DEF NullCall, Die, Contract!Stop, Contract!Silence
  <2> QED BY <2>1 DEF Contract!ContractNext
<1>5. CASE Succeed(w) \/ Fail(w)
  BY <1>5 DEF Succeed, Fail
<1>6. CASE MergeCache(w)
  BY <1>6 DEF MergeCache
<1>7. CASE EndUpdate(w)
  <2>1. Contract!End(w)
    BY <1>7 DEF EndUpdate, Hear, At, ContractInv, Heard, Contract!End
  <2> QED BY <2>1 DEF Contract!ContractNext
<1>8. CASE ReadCache(w) \/ SetUrl(w) \/ SetSink(w) \/ Perform(w) \/ Refused(w)
  BY <1>8 DEF ReadCache, SetUrl, SetSink, Perform, Refused
<1>9. CASE (\E n \in Sizes : Answer(w, n)) \/ HttpFail(w) \/ Save(w)
  BY <1>9 DEF Answer, HttpFail, Save
<1> QED BY <1>1, <1>3, <1>4, <1>5, <1>6, <1>7, <1>8, <1>9 DEF Continue

LEMMA ContractStep ==
  Inv /\ ContractInv /\ Inv' /\ [Next]_vars
    => [Contract!ContractNext]_(Contract!contractVars)
<1> SUFFICES ASSUME Inv, ContractInv, Inv', [Next]_vars
             PROVE  [Contract!ContractNext]_(Contract!contractVars)
  OBVIOUS
<1> USE DEF Contract!contractVars
<1>1. ASSUME NEW w \in Worker, NEW p \in Page, Request(w, p)
      PROVE  UNCHANGED <<observer, heard, view>>
  BY <1>1 DEF Request
<1>2. ASSUME NEW w \in Worker, Reset(w)
      PROVE  UNCHANGED <<observer, heard, view>>
  BY <1>2 DEF Reset
<1>3. ASSUME NEW w \in Worker, Continue(w)
      PROVE  [Contract!ContractNext]_(Contract!contractVars)
  BY <1>3, ContractContinue
<1>4. CASE Unsubscribe
  <2>1. Contract!Detach
    BY <1>4 DEF Unsubscribe, Contract!Detach
  <2> QED BY <2>1 DEF Contract!ContractNext
<1>5. CASE Change
  BY <1>5 DEF Change
<1>6. CASE Crash
  <2>1. Contract!Stop
    BY <1>6 DEF Crash, Die, Contract!Stop, Contract!Silence
  <2> QED BY <2>1 DEF Contract!ContractNext
<1>7. CASE Launch
  <2>1. Contract!Attach
    BY <1>7 DEF Launch, ContractInv, Inv, TypeOK, Contract!Attach,
                Contract!Silence
  <2> QED BY <2>1 DEF Contract!ContractNext
<1>8. CASE UNCHANGED vars
  BY <1>8 DEF vars
<1> QED BY <1>1, <1>2, <1>3, <1>4, <1>5, <1>6, <1>7, <1>8 DEF Next

\* With any number of requests overlapping, the observer of the controller hears
\* begin, at least one update, and then end of each request, and nothing once it
\* has unsubscribed (explore_controller.cpp:29-118).
THEOREM ContractKept == Spec => KeepsContract
<1>1. Spec => []ContractInv
  BY ContractInvInit, ContractInvNext, InvCorrect, PTL DEF Spec
<1> QED
  BY <1>1, ContractStart, ContractStep, InvCorrect, PTL
  DEF Spec, KeepsContract, Contract!ContractSpec

-----------------------------------------------------------------------------
(* One worker: a caller whose requests do not overlap.                     *)

\* Two workers are the same worker.
Serial == \A v, w \in Worker : v = w

\* Where a request has the answer on its stack, and where it has merged it.
HoldsAnswer == {"answered", "telling", "ending", "saving"}
Answered == {"telling", "ending", "saving"}

USE DEF HoldsAnswer, Answered

\* The handle holds what the running request put there, and its stack nothing
\* but the row, later the answer, of the page it asked for.
Coherent(w) ==
  /\ pc[w] \in {"sink", "perform", "transfer"} => handle.url = page[w]
  /\ pc[w] \in {"perform", "transfer"} => handle.sink = w
  /\ pc[w] = "transfer" => handle.fetch = page[w]
  /\ pc[w] = "merging" => body[w] = db[page[w]]
  /\ pc[w] \in HoldsAnswer =>
       /\ body[w] \in Body
       /\ body[w].page = page[w]
       /\ db[page[w]].ver <= body[w].ver
       /\ body[w].ver <= live
  /\ pc[w] \notin HoldsAnswer \cup {"merging"} => body[w] = NoBody

\* What the file holds is not from the future.
Dated == \A p \in Page : db[p].ver <= live

\* A photo that was merged is in the file in that version or a later one, or
\* the request that brought it is still to write it there.
Kept(photo) ==
  \/ photo.ver <= db[photo.page].ver
  \/ \E w \in Worker : /\ pc[w] \in Answered
                       /\ page[w] = photo.page
                       /\ photo.ver <= body[w].ver

AllKept ==
  /\ \A i \in 1..Len(items) : Kept(items[i])
  /\ \A i \in 1..Len(view.items) : Kept(view.items[i])

\* The list held is nowhere older than the list shown.
NotBehind ==
  \A i \in 1..Len(items) :
    i <= Len(view.items) /\ items[i].page = view.items[i].page
      => items[i].ver >= view.items[i].ver

\* The list is shown as it is, or was emptied since, before the first merge of a
\* request and after its last update.
Shown ==
  /\ observer /\ (\A w \in Worker : pc[w] \in {"idle", "ending", "aborting",
                                              "saving"})
       => items \in {view.items, <<>>}
  /\ ~alive => items = <<>> /\ view = NoView

SerialInv ==
  /\ \A w \in Worker : Coherent(w)
  /\ CacheOwnPage
  /\ Dated
  /\ AllKept
  /\ NotBehind
  /\ Shown

\* A running request is the only one.
LEMMA Alone ==
  ASSUME Serial, NEW w \in Worker
  PROVE  /\ \A v \in Worker : v = w
         /\ ~Racing(w)
BY DEF Serial, Racing

LEMMA SerialStart == Init => SerialInv
<1> SUFFICES ASSUME Init PROVE SerialInv
  OBVIOUS
<1>1. \A p \in Page : db[p] = NoBody
  BY DEF Init
<1>2. CacheOwnPage /\ Dated
  BY <1>1 DEF Init, CacheOwnPage, Dated, NoBody
<1>3. ASSUME NEW w \in Worker PROVE Coherent(w)
  BY DEF Init, Fresh, Coherent
<1>4. items = <<>> /\ view.items = <<>>
  BY DEF Init, Fresh, NoView
<1>5. AllKept /\ NotBehind
  BY <1>4 DEF AllKept, NotBehind
<1>6. Shown
  BY <1>4 DEF Init, Fresh, Shown
<1> QED BY <1>2, <1>3, <1>5, <1>6 DEF SerialInv

\* The end of the process leaves the file, and nothing else.
LEMMA SerialDie == SerialInv /\ Die => SerialInv'
<1> SUFFICES ASSUME SerialInv, Die PROVE SerialInv'
  OBVIOUS
<1>1. db' = db /\ live' = live
  BY DEF Die
<1>2. CacheOwnPage' /\ Dated'
  BY <1>1 DEF SerialInv, CacheOwnPage, Dated
<1>3. ASSUME NEW w \in Worker PROVE Coherent(w)'
  BY DEF Die, Coherent
<1>4. items' = <<>> /\ view' = NoView /\ view'.items = <<>>
  BY DEF Die, NoView
<1>5. AllKept' /\ NotBehind'
  BY <1>4 DEF AllKept, NotBehind
<1>6. Shown'
  BY <1>4 DEF Shown
<1> QED BY <1>2, <1>3, <1>5, <1>6 DEF SerialInv

\* A request is called, after a reset or not.
LEMMA SerialCalled ==
  ASSUME Serial, Inv, SerialInv, NEW w \in Worker, NEW p \in Page,
         At(w, "idle"), Goto(w, "begin"), page' = [page EXCEPT ![w] = p],
         items' \in {items, <<>>},
         UNCHANGED <<alive, observer, db, live, handle, body, view>>
  PROVE  SerialInv'
<1>1. /\ \A v \in Worker : v = w
      /\ pc[w] = "idle" /\ pc'[w] = "begin"
  BY Alone DEF At, Goto, Inv, TypeOK
<1>2. \A v \in Worker : Coherent(v)'
  BY <1>1 DEF SerialInv, Coherent
<1>3. CacheOwnPage' /\ Dated'
  BY DEF SerialInv, CacheOwnPage, Dated
<1>4. AllKept'
  BY <1>1 DEF SerialInv, AllKept, Kept
<1>5. NotBehind'
  BY DEF SerialInv, NotBehind
<1>6. Shown'
  BY <1>1 DEF SerialInv, Shown, At
<1> QED BY <1>2, <1>3, <1>4, <1>5, <1>6 DEF SerialInv

LEMMA SerialReset ==
  ASSUME Serial, SerialInv, NEW w \in Worker, Reset(w) PROVE SerialInv'
<1>1. items' = <<>>
  BY Alone DEF Reset, Cleared
<1>2. UNCHANGED <<alive, observer, db, live, handle, pc, page, body, view>>
  BY DEF Reset
<1>3. \A v \in Worker : Coherent(v)'
  BY <1>2 DEF SerialInv, Coherent
<1>4. CacheOwnPage' /\ Dated'
  BY <1>2 DEF SerialInv, CacheOwnPage, Dated
<1>5. AllKept' /\ NotBehind'
  BY <1>1, <1>2 DEF SerialInv, AllKept, NotBehind, Kept
<1>6. Shown'
  BY <1>1, <1>2 DEF SerialInv, Shown
<1> QED BY <1>3, <1>4, <1>5, <1>6 DEF SerialInv

\* The steps between two merges: only the handle, the stream and what the
\* observer heard move.
LEMMA SerialFetch ==
  ASSUME Serial, Inv, SerialInv, NEW w \in Worker, alive,
         NEW to \in Step \ {"idle", "telling", "ending", "aborting", "saving"},
         pc[w] \notin {"idle", "telling", "ending", "aborting", "saving"},
         Goto(w, to),
         Coherent(w)',
         UNCHANGED <<alive, observer, items, db, live, page, view>>
  PROVE  SerialInv'
<1>1. /\ \A v \in Worker : v = w
      /\ pc'[w] = to
  BY Alone DEF Goto, Inv, TypeOK
<1>2. \A v \in Worker : Coherent(v)'
  BY <1>1
<1>3. CacheOwnPage' /\ Dated'
  BY DEF SerialInv, CacheOwnPage, Dated
<1>4. AllKept'
  BY <1>1 DEF SerialInv, AllKept, Kept
<1>5. NotBehind'
  BY DEF SerialInv, NotBehind
<1>6. Shown'
  BY <1>1 DEF SerialInv, Shown
<1> QED BY <1>2, <1>3, <1>4, <1>5, <1>6 DEF SerialInv

\* The photos of the page of the running request that were merged before are
\* not newer than what the file holds, until that request merges its answer.
LEMMA KeptInFile ==
  ASSUME Serial, NEW w \in Worker, pc[w] \notin Answered,
         NEW photo, Kept(photo)
  PROVE  photo.ver <= db[photo.page].ver
BY Alone DEF Kept

\* Versions are numbers.
LEMMA VersionType ==
  /\ \A photo \in Photo : photo.ver \in Int /\ photo.page \in Page
  /\ \A b \in Body \cup {NoBody} : b.ver \in Int
BY DEF Photo, Body, NoBody, Version

\* A body b of page p that is merged is newer than all that was shown of p.
LEMMA SerialMerge ==
  ASSUME Serial, Inv, SerialInv, NEW w \in Worker,
         pc[w] \notin Answered, NEW p \in Int,
         NEW b \in Body \cup {NoBody}, b.page \in Page => db[b.page].ver <= b.ver,
         items' = Merge(items, p, Details(b))
  PROVE  /\ items' \in Seq(Photo)
         /\ \A i \in 1..Len(items') :
              \/ items'[i].ver <= db[items'[i].page].ver
              \/ b \in Body /\ items'[i].page = b.page /\ items'[i].ver = b.ver
         /\ \A i \in 1..Len(items') :
              i <= Len(view.items) /\ items'[i].page = view.items[i].page
                => items'[i].ver >= view.items[i].ver
<1>1. items \in Seq(Photo) /\ view.items \in Seq(Photo)
  BY DEF Inv, TypeOK
<1>2. Details(b) \in Seq(Photo) /\ Len(Details(b)) = b.size
  BY DetailsType
<1>3. items' \in Seq(Photo)
  BY <1>1, <1>2, MergeType
<1>4. ASSUME NEW i \in 1..Len(items')
      PROVE  \/ i \in 1..Len(items) /\ items'[i] = items[i]
             \/ b \in Body /\ items'[i].page = b.page /\ items'[i].ver = b.ver
  <2>1. CASE i \in 1..Len(items) /\ items'[i] = items[i]
    BY <2>1
  <2>2. CASE \E j \in 1..Len(Details(b)) : items'[i] = Details(b)[j]
    <3>1. PICK j \in 1..b.size : items'[i] = Details(b)[j]
      BY <1>2, <2>2
    <3>2. items'[i] = [page |-> b.page, ver |-> b.ver, idx |-> j]
      BY <3>1, DetailsType
    <3>3. b # NoBody
      BY <3>1 DEF NoBody
    <3> QED BY <3>2, <3>3
  <2> QED BY <1>1, <1>2, <2>1, <2>2, MergeFrom
<1>5. ASSUME NEW i \in 1..Len(items'),
             i <= Len(view.items), items'[i].page = view.items[i].page
      PROVE  items'[i].ver >= view.items[i].ver
  <2>1. i \in 1..Len(view.items) /\ view.items[i] \in Photo
    BY <1>1, <1>3, <1>5
  <2>2. CASE i \in 1..Len(items) /\ items'[i] = items[i]
    BY <1>5, <2>2 DEF SerialInv, NotBehind
  <2>3. CASE b \in Body /\ items'[i].page = b.page /\ items'[i].ver = b.ver
    <3>1. Kept(view.items[i])
      BY <2>1 DEF SerialInv, AllKept
    <3>2. view.items[i].ver <= db[b.page].ver
      BY <1>5, <2>3, <3>1, KeptInFile
    <3>3. /\ b.page \in Page /\ b.ver \in Int
          /\ view.items[i].ver \in Int
          /\ db[b.page] \in Body \cup {NoBody}
      BY <2>1, <2>3 DEF Body, Photo, Version, Inv, TypeOK
    <3>4. db[b.page].ver \in Int
      BY <3>3 DEF Body, NoBody, Version
    <3> QED BY <2>3, <3>2, <3>3, <3>4
  <2> QED BY <1>4, <2>2, <2>3
<1>6. ASSUME NEW i \in 1..Len(items), items'[i] = items[i]
      PROVE  items'[i].ver <= db[items'[i].page].ver
  <2>1. Kept(items[i])
    BY DEF SerialInv, AllKept
  <2> QED BY <1>6, <2>1, KeptInFile
<1> QED BY <1>3, <1>4, <1>5, <1>6

LEMMA SerialReadCache ==
  ASSUME Serial, Inv, SerialInv, NEW w \in Worker, ReadCache(w)
  PROVE  SerialInv'
<1>1. /\ pc \in [Worker -> Step]
      /\ body \in [Worker -> Body \cup {NoBody}]
  BY DEF Inv, TypeOK
<1>2. pc'[w] = "merging" /\ body'[w] = db[page[w]]
  BY <1>1 DEF ReadCache, Goto
<1>3. Coherent(w)'
  BY <1>2 DEF ReadCache, Coherent
<1> QED BY <1>3, SerialFetch DEF ReadCache, At, Step

LEMMA SerialMergeCache ==
  ASSUME Serial, Inv, SerialInv, NEW w \in Worker, MergeCache(w)
  PROVE  SerialInv'
<1>1. /\ \A v \in Worker : v = w
      /\ pc[w] = "merging" /\ pc'[w] = "cached"
      /\ page[w] \in Page
      /\ body'[w] = NoBody
  BY Alone DEF MergeCache, At, Goto, Inv, TypeOK, InFlight
<1>2. UNCHANGED <<alive, observer, db, live, handle, page, view>>
  BY DEF MergeCache
<1>3. page[w] \in Int
  BY <1>1, PagedListAssumption DEF Page
<1>4. db[page[w]] \in Body \cup {NoBody}
  BY <1>1 DEF Inv, TypeOK
<1>5. db[page[w]].page \in Page => db[db[page[w]].page].ver <= db[page[w]].ver
  <2>1. db[page[w]].page \in Page => db[page[w]].page = page[w]
    BY <1>1 DEF SerialInv, CacheOwnPage, Page
  <2>2. db[page[w]].ver \in Int
    BY <1>4 DEF Body, NoBody, Version
  <2> QED BY <2>1, <2>2
<1>6. items' = Merge(items, page[w], Details(db[page[w]]))
  <2>1. body[w] = db[page[w]]
    BY <1>1 DEF SerialInv, Coherent
  <2> QED BY <2>1, Alone DEF MergeCache, Merged
<1>7. \A v \in Worker : Coherent(v)'
  BY <1>1, <1>2 DEF SerialInv, Coherent
<1>8. CacheOwnPage' /\ Dated'
  BY <1>2 DEF SerialInv, CacheOwnPage, Dated
<1>9. NotBehind'
  BY <1>1, <1>2, <1>3, <1>4, <1>5, <1>6, SerialMerge DEF NotBehind
<1>10. \A i \in 1..Len(items') : items'[i].ver <= db[items'[i].page].ver
  <2> SUFFICES ASSUME NEW i \in 1..Len(items')
               PROVE  items'[i].ver <= db[items'[i].page].ver
    OBVIOUS
  <2> DEFINE b == db[page[w]]
  <2>1. CASE b \in Body /\ items'[i].page = b.page /\ items'[i].ver = b.ver
    <3>1. b.page = page[w] /\ b.ver \in Int
      BY <1>1, <2>1 DEF SerialInv, CacheOwnPage, Page, Body, Version
    <3> QED BY <2>1, <3>1
  <2> QED BY <1>1, <1>3, <1>4, <1>5, <1>6, <2>1, SerialMerge
<1>11. AllKept'
  BY <1>1, <1>2, <1>10 DEF SerialInv, AllKept, Kept
<1>12. Shown'
  BY <1>1, <1>2 DEF Shown, SerialInv, MergeCache, At
<1> QED BY <1>7, <1>8, <1>9, <1>11, <1>12 DEF SerialInv

\* What the merge of an answer leaves.
LEMMA SucceedMerge ==
  ASSUME Serial, Inv, SerialInv, NEW w \in Worker, Succeed(w)
  PROVE  /\ items' \in Seq(Photo)
         /\ \A i \in 1..Len(items') :
              \/ items'[i].ver <= db[items'[i].page].ver
              \/ items'[i].page = page[w] /\ items'[i].ver = body[w].ver
         /\ \A i \in 1..Len(items') :
              i <= Len(view.items) /\ items'[i].page = view.items[i].page
                => items'[i].ver >= view.items[i].ver
<1>1. pc[w] = "answered" /\ page[w] \in Page
  BY DEF Succeed, At, Inv, InFlight
<1>2. PageOf(page[w]) \in Int
  BY <1>1, PagedListAssumption, PageOfType DEF Page
<1>3. /\ body[w] \in Body
      /\ body[w].page = page[w]
      /\ db[page[w]].ver <= body[w].ver
  BY <1>1 DEF SerialInv, Coherent
<1>4. items' = Merge(items, PageOf(page[w]), Details(body[w]))
  BY Alone DEF Succeed, Merged
<1> QED BY <1>1, <1>2, <1>3, <1>4, SerialMerge

LEMMA SerialSucceed ==
  ASSUME Serial, Inv, SerialInv, NEW w \in Worker, Succeed(w)
  PROVE  SerialInv'
<1>1. /\ \A v \in Worker : v = w
      /\ pc[w] = "answered" /\ pc'[w] \in {"telling", "saving"}
      /\ observer => pc'[w] = "telling"
  BY Alone DEF Succeed, At, Goto, Inv, TypeOK
<1>2. UNCHANGED <<alive, observer, db, live, handle, page, body, view>>
  BY DEF Succeed
<1>3. body[w] \in Body
  BY <1>1 DEF SerialInv, Coherent
<1>5. \A v \in Worker : Coherent(v)'
  BY <1>1, <1>2 DEF SerialInv, Coherent
<1>6. CacheOwnPage' /\ Dated'
  BY <1>2 DEF SerialInv, CacheOwnPage, Dated
<1>7. NotBehind'
  BY <1>2, SucceedMerge DEF NotBehind
<1>8. AllKept'
  <2>1. body[w].ver \in Int
    BY <1>3, VersionType
  <2>2. \A i \in 1..Len(items') : Kept(items[i])'
    <3> SUFFICES ASSUME NEW i \in 1..Len(items') PROVE Kept(items[i])'
      OBVIOUS
    <3>1. CASE items'[i].ver <= db[items'[i].page].ver
      BY <1>2, <3>1 DEF Kept
    <3>2. CASE items'[i].page = page[w] /\ items'[i].ver = body[w].ver
      BY <1>1, <1>2, <2>1, <3>2 DEF Kept
    <3> QED BY SucceedMerge, <3>1, <3>2
  <2>3. \A i \in 1..Len(view.items) :
          view.items[i].ver <= db[view.items[i].page].ver
    BY <1>1 DEF SerialInv, AllKept, Kept
  <2> QED BY <1>2, <2>2, <2>3 DEF AllKept, Kept
<1>9. Shown'
  BY <1>1, <1>2 DEF Shown, Succeed, At
<1> QED BY <1>5, <1>6, <1>7, <1>8, <1>9 DEF SerialInv

\* What a request does to the handle reaches no other request.
LEMMA SerialHandle ==
  ASSUME Serial, Inv, SerialInv, NEW w \in Worker,
         \/ BeginUpdate(w) \/ SetUrl(w) \/ SetSink(w) \/ Perform(w) \/ Refused(w)
  PROVE  SerialInv'
<1>1. /\ Coherent(w)
      /\ pc \in [Worker -> Step]
      /\ handle \in [url: Page \cup {0}, sink: Worker \cup {NoOne},
                     busy: Worker \cup {NoOne}, fetch: Page \cup {0}]
  BY DEF SerialInv, Inv, TypeOK
<1>2. Coherent(w)'
  BY <1>1 DEF Coherent, BeginUpdate, SetUrl, SetSink, Perform, Refused, At, Goto
<1> QED BY <1>2, SerialFetch
        DEF BeginUpdate, SetUrl, SetSink, Perform, Refused, At, Step

LEMMA SerialAnswer ==
  ASSUME Serial, Inv, SerialInv, NEW w \in Worker,
         NEW n \in Sizes, Answer(w, n)
  PROVE  SerialInv'
<1> DEFINE text == [page |-> handle.fetch, ver |-> live, size |-> n]
<1>1. pc[w] = "transfer" /\ pc \in [Worker -> Step]
  BY DEF Answer, At, Inv, TypeOK
<1>2. /\ handle.sink = w
      /\ handle.fetch = page[w]
      /\ body[w] = NoBody
      /\ page[w] \in Page
  BY <1>1 DEF SerialInv, Coherent, Inv, InFlight
<1>3. text \in Body
  BY <1>1, TextType, ExploreAssumption
<1>4. body' = [body EXCEPT ![w] = text] /\ body'[w] = text
  BY <1>2 DEF Answer, Written, Inv, TypeOK
<1>5. db[page[w]].ver <= live /\ live \in Int
  BY <1>2 DEF SerialInv, Dated, Inv, TypeOK, Version
<1>6. Coherent(w)'
  <2>1. pc'[w] = "answered" /\ UNCHANGED <<db, live, page>>
    BY <1>1 DEF Answer, Goto
  <2> QED BY <1>2, <1>3, <1>4, <1>5, <2>1 DEF Coherent
<1> QED BY <1>1, <1>6, SerialFetch DEF Answer, At, Step

LEMMA SerialHttpFail ==
  ASSUME Serial, Inv, SerialInv, NEW w \in Worker, HttpFail(w)
  PROVE  SerialInv'
<1>1. pc[w] = "transfer" /\ pc \in [Worker -> Step]
  BY DEF HttpFail, At, Inv, TypeOK
<1>2. handle.sink = w /\ body[w] = NoBody
  BY <1>1 DEF SerialInv, Coherent
<1>3. body' = body /\ pc'[w] = "failed"
  BY <1>1, <1>2 DEF HttpFail, Goto
<1>4. Coherent(w)'
  BY <1>2, <1>3 DEF Coherent
<1> QED BY <1>1, <1>4, SerialFetch DEF HttpFail, At, Step

\* A failure is found out, with an observer or without.
LEMMA SerialFail ==
  ASSUME Serial, Inv, SerialInv, NEW w \in Worker, Fail(w) PROVE SerialInv'
<1>1. /\ \A v \in Worker : v = w
      /\ pc \in [Worker -> Step]
      /\ body \in [Worker -> Body \cup {NoBody}]
  BY Alone DEF Inv, TypeOK
<1>2. /\ pc[w] = "failed"
      /\ \/ observer /\ pc'[w] = "failing"
         \/ ~observer /\ pc'[w] = "idle"
      /\ body[w] = NoBody /\ body'[w] = NoBody
  BY <1>1 DEF Fail, Return, At, Goto, SerialInv, Coherent
<1>3. UNCHANGED <<alive, observer, items, db, live, handle, view>>
  BY DEF Fail
<1>4. Coherent(w)'
  BY <1>2 DEF Coherent
<1>5. CacheOwnPage' /\ Dated'
  BY <1>3 DEF SerialInv, CacheOwnPage, Dated
<1>6. AllKept'
  BY <1>1, <1>2, <1>3 DEF SerialInv, AllKept, Kept
<1>7. NotBehind'
  BY <1>3 DEF SerialInv, NotBehind
<1>8. Shown'
  BY <1>1, <1>2, <1>3 DEF SerialInv, Shown, Fail, At
<1> QED BY <1>1, <1>4, <1>5, <1>6, <1>7, <1>8 DEF SerialInv

\* The list is shown as it is: with what the cache held, with the answer, or
\* with an error.
Shows(w) == ShowCache(w) \/ ShowAnswer(w) \/ ShowError(w)

LEMMA SerialShow ==
  ASSUME Serial, Inv, SerialInv, NEW w \in Worker, Shows(w)
  PROVE  SerialInv'
<1> USE DEF Shows
<1>1. /\ \A v \in Worker : v = w
      /\ pc \in [Worker -> Step]
      /\ items \in Seq(Photo)
  BY Alone DEF Inv, TypeOK
<1>2. /\ \/ pc[w] = "cached" /\ pc'[w] = "url"
         \/ pc[w] = "failing" /\ pc'[w] = "aborting"
         \/ pc[w] = "telling" /\ pc'[w] = "ending"
      /\ alive
  BY <1>1 DEF ShowCache, ShowAnswer, ShowError, At, Goto
<1>3. UNCHANGED <<alive, observer, items, db, live, handle, page, body>>
  BY DEF ShowCache, ShowAnswer, ShowError
<1>4. view'.items = items
  BY DEF ShowCache, ShowAnswer, ShowError
<1>5. Coherent(w)'
  BY <1>2, <1>3 DEF SerialInv, Coherent
<1>6. CacheOwnPage' /\ Dated'
  BY <1>3 DEF SerialInv, CacheOwnPage, Dated
<1>7. AllKept'
  BY <1>1, <1>2, <1>3, <1>4 DEF SerialInv, AllKept, Kept
<1>8. NotBehind'
  <2>1. \A i \in 1..Len(items) : items[i] \in Photo
    BY <1>1
  <2>2. \A i \in 1..Len(items) : items[i].ver \in Int
    BY <2>1, VersionType
  <2> QED BY <1>3, <1>4, <2>2 DEF NotBehind
<1>9. Shown'
  BY <1>2, <1>3, <1>4 DEF Shown
<1> QED BY <1>1, <1>5, <1>6, <1>7, <1>8, <1>9 DEF SerialInv

LEMMA SerialEndUpdate ==
  ASSUME Serial, Inv, SerialInv, NEW w \in Worker, EndUpdate(w)
  PROVE  SerialInv'
<1>1. /\ \A v \in Worker : v = w
      /\ pc \in [Worker -> Step]
      /\ body \in [Worker -> Body \cup {NoBody}]
  BY Alone DEF Inv, TypeOK
<1>2. \/ /\ pc[w] = "ending" /\ pc'[w] = "saving"
         /\ UNCHANGED <<page, body>>
      \/ /\ pc[w] = "aborting" /\ pc'[w] = "idle"
         /\ body'[w] = NoBody
  BY <1>1 DEF EndUpdate, Return, At, Goto
<1>3. UNCHANGED <<alive, observer, items, db, live, handle, view>>
  BY DEF EndUpdate
<1>4. Coherent(w)'
  BY <1>1, <1>2, <1>3 DEF SerialInv, Coherent
<1>5. CacheOwnPage' /\ Dated'
  BY <1>3 DEF SerialInv, CacheOwnPage, Dated
<1>6. AllKept'
  BY <1>1, <1>2, <1>3 DEF SerialInv, AllKept, Kept
<1>7. NotBehind'
  BY <1>3 DEF SerialInv, NotBehind
<1>8. Shown'
  BY <1>1, <1>2, <1>3 DEF SerialInv, Shown
<1> QED BY <1>1, <1>4, <1>5, <1>6, <1>7, <1>8 DEF SerialInv

\* The answer goes into the file under the page it was produced for.
LEMMA SerialSave ==
  ASSUME Serial, Inv, SerialInv, NEW w \in Worker, Save(w)
  PROVE  SerialInv'
<1>1. /\ \A v \in Worker : v = w
      /\ pc \in [Worker -> Step]
      /\ db \in [Page -> Body \cup {NoBody}]
      /\ items \in Seq(Photo) /\ view.items \in Seq(Photo)
  BY Alone DEF Inv, TypeOK
<1>2. /\ pc[w] = "saving" /\ pc'[w] = "idle"
      /\ page[w] \in Page
      /\ body'[w] = NoBody
  BY DEF Save, Return, At, Goto, Inv, TypeOK, InFlight
<1>3. /\ body[w] \in Body
      /\ body[w].page = page[w]
      /\ db[page[w]].ver <= body[w].ver
      /\ body[w].ver <= live
  BY <1>2 DEF SerialInv, Coherent
<1>4. /\ UNCHANGED <<alive, observer, items, live, handle, view>>
      /\ db'[page[w]] = body[w]
      /\ \A p \in Page \ {page[w]} : db'[p] = db[p]
  BY <1>1, <1>2 DEF Save
<1>5. Coherent(w)'
  BY <1>2 DEF Coherent
<1>6. CacheOwnPage' /\ Dated'
  BY <1>3, <1>4 DEF SerialInv, CacheOwnPage, Dated
<1>7. ASSUME NEW photo \in Photo, Kept(photo)
      PROVE  photo.ver <= db'[photo.page].ver
  <2>1. photo.ver \in Int /\ photo.page \in Page
    BY VersionType
  <2>2. body[w].ver \in Int /\ db[photo.page].ver \in Int
    BY <1>1, <1>3, <2>1, VersionType
  <2>3. CASE photo.page = page[w]
    <3>1. photo.ver <= body[w].ver
      BY <1>1, <1>3, <1>7, <2>1, <2>2, <2>3 DEF Kept
    <3> QED BY <1>4, <2>3, <3>1
  <2>4. CASE photo.page # page[w]
    BY <1>1, <1>4, <1>7, <2>1, <2>4 DEF Kept
  <2> QED BY <2>3, <2>4
<1>8. AllKept'
  <2>1. \A i \in 1..Len(items) : items[i] \in Photo /\ Kept(items[i])
    BY <1>1 DEF SerialInv, AllKept
  <2>2. \A i \in 1..Len(view.items) :
          view.items[i] \in Photo /\ Kept(view.items[i])
    BY <1>1 DEF SerialInv, AllKept
  <2> QED BY <1>4, <1>7, <2>1, <2>2 DEF AllKept, Kept
<1>9. NotBehind'
  BY <1>4 DEF SerialInv, NotBehind
<1>10. Shown'
  BY <1>1, <1>2, <1>4 DEF SerialInv, Shown
<1> QED BY <1>1, <1>5, <1>6, <1>8, <1>9, <1>10 DEF SerialInv

\* A step of the running request.
LEMMA SerialContinue ==
  ASSUME Serial, Inv, SerialInv, NEW w \in Worker, Continue(w)
  PROVE  SerialInv'
BY SerialHandle, SerialReadCache, SerialMergeCache, SerialShow, SerialDie,
   SerialAnswer, SerialHttpFail, SerialSucceed, SerialFail, SerialEndUpdate,
   SerialSave
   DEF Continue, NullCall, Shows

LEMMA SerialUnsubscribe == SerialInv /\ Unsubscribe => SerialInv'
BY DEF Unsubscribe, SerialInv, Coherent, CacheOwnPage, Dated, AllKept, Kept,
       NotBehind, Shown

\* A later version makes nothing that is held newer.
LEMMA SerialChange == Inv /\ SerialInv /\ Change => SerialInv'
<1> SUFFICES ASSUME Inv, SerialInv, Change PROVE SerialInv'
  OBVIOUS
<1>1. /\ UNCHANGED <<alive, observer, items, db, handle, pc, page, body, view>>
      /\ live' = live + 1
      /\ live \in Int
  BY DEF Change, Inv, TypeOK, Version
<1>2. /\ \A p \in Page : db[p].ver \in Int
      /\ \A w \in Worker : body[w].ver \in Int
  BY VersionType DEF Inv, TypeOK
<1>3. ASSUME NEW w \in Worker PROVE Coherent(w)'
  BY <1>1, <1>2 DEF SerialInv, Coherent
<1>4. CacheOwnPage' /\ Dated'
  BY <1>1, <1>2 DEF SerialInv, CacheOwnPage, Dated
<1>5. AllKept' /\ NotBehind' /\ Shown'
  BY <1>1 DEF SerialInv, AllKept, Kept, NotBehind, Shown
<1> QED BY <1>3, <1>4, <1>5 DEF SerialInv

LEMMA SerialLaunch == SerialInv /\ Launch => SerialInv'
BY DEF Launch, SerialInv, Coherent, CacheOwnPage, Dated, AllKept, Kept,
       NotBehind, Shown

LEMMA SerialStutter ==
  SerialInv /\ UNCHANGED <<alive, observer, items, db, live, handle, pc, page,
                           body, view>>
    => SerialInv'
BY DEF SerialInv, Coherent, CacheOwnPage, Dated, AllKept, Kept, NotBehind, Shown

LEMMA SerialNext ==
  ASSUME Serial PROVE Inv /\ SerialInv /\ [Next]_vars => SerialInv'
<1> SUFFICES ASSUME Inv, SerialInv, [Next]_vars PROVE SerialInv'
  OBVIOUS
<1>1. ASSUME NEW w \in Worker, NEW p \in Page, Request(w, p) PROVE SerialInv'
  BY <1>1, SerialCalled DEF Request
<1>2. ASSUME NEW w \in Worker, Reset(w) PROVE SerialInv'
  BY <1>2, SerialReset
<1>3. ASSUME NEW w \in Worker, Continue(w) PROVE SerialInv'
  BY <1>3, SerialContinue
<1>4. CASE Unsubscribe
  BY <1>4, SerialUnsubscribe
<1>5. CASE Change
  BY <1>5, SerialChange
<1>6. CASE Crash
  BY <1>6, SerialDie DEF Crash
<1>7. CASE Launch
  BY <1>7, SerialLaunch
<1>8. CASE UNCHANGED vars
  BY <1>8, SerialStutter DEF vars
<1> QED BY <1>1, <1>2, <1>3, <1>4, <1>5, <1>6, <1>7, <1>8 DEF Next

LEMMA SerialInvCorrect == ASSUME Serial PROVE Spec => []SerialInv
BY SerialStart, SerialNext, InvCorrect, PTL DEF Spec

\* A step that shows the list shows nothing older in the same place.
LEMMA SerialNeverOlder ==
  ASSUME Serial, Inv, SerialInv,
         view' = view \/ Die \/ \E w \in Worker : Continue(w),
         NEW i \in 1..Len(view.items), i <= Len(view'.items),
         view'.items[i].page = view.items[i].page
  PROVE  view'.items[i].ver >= view.items[i].ver
<1>1. view.items \in Seq(Photo)
  BY DEF Inv, TypeOK
<1>2. CASE view' = view
  <2>1. view.items[i].ver \in Int
    BY <1>1, VersionType
  <2> QED BY <1>2, <2>1
<1>3. CASE Die
  BY <1>3 DEF Die, NoView
<1>4. ASSUME NEW w \in Worker, Shows(w)
      PROVE  view'.items[i].ver >= view.items[i].ver
  <2>1. view'.items = items
    BY <1>4 DEF Shows, ShowCache, ShowAnswer, ShowError
  <2>2. i \in 1..Len(items)
    BY <2>1 DEF Inv, TypeOK
  <2> QED BY <1>1, <2>1, <2>2 DEF SerialInv, NotBehind
<1>5. ASSUME NEW w \in Worker, Continue(w), view' # view
      PROVE  Shows(w) \/ Die
  BY <1>5 DEF Continue, Shows, BeginUpdate, ReadCache, MergeCache, NullCall,
              SetUrl, SetSink, Perform, Refused, Answer, HttpFail, Succeed,
              Fail, EndUpdate, Save
<1> QED BY <1>2, <1>3, <1>4, <1>5

-----------------------------------------------------------------------------
\* A page saved in the cache was produced for the page it is saved under, for a
\* caller whose requests do not overlap: whatever the server answers and wherever
\* the process dies (explore_controller.cpp:89-118, utility.cpp:49-78).
THEOREM CacheOwnPageCorrect == ASSUME Serial PROVE Spec => []CacheOwnPage
<1>1. SerialInv => CacheOwnPage
  BY DEF SerialInv
<1> QED BY <1>1, SerialInvCorrect, PTL

\* When no request is running the observer has been shown the list as it is, or
\* the list was emptied since (explore_controller.cpp:42, 79-110).
THEOREM SettledCorrect == ASSUME Serial PROVE Spec => []Settled
<1>1. Inv /\ SerialInv => Settled
  BY DEF Inv, TypeOK, SerialInv, Shown, Settled, Active
<1> QED BY <1>1, InvCorrect, SerialInvCorrect, PTL

\* The observer is never shown an older version of a photo where it was shown a
\* newer one, although the cache is written after the observer is told and read
\* again before the next answer (explore_controller.cpp:34-42, 107-117).
THEOREM NeverOlderCorrect == ASSUME Serial PROVE Spec => NeverOlder
<1>1. [Next]_vars => view' = view \/ Die \/ \E w \in Worker : Continue(w)
  BY DEF Next, Request, Reset, Unsubscribe, Change, Crash, Launch, vars
<1>2. Inv /\ SerialInv /\ [Next]_vars =>
        [\A i \in 1..Len(view.items) :
           /\ i <= Len(view'.items)
           /\ view'.items[i].page = view.items[i].page
           => view'.items[i].ver >= view.items[i].ver]_vars
  BY <1>1, SerialNeverOlder
<1> QED BY <1>2, InvCorrect, SerialInvCorrect, PTL DEF Spec, NeverOlder

-----------------------------------------------------------------------------
(* Full pages: the list is made of whole pages.                            *)

\* A position in a list is a slot of a block.
LEMMA SlotOf ==
  ASSUME NEW j \in Nat
  PROVE  \E q \in Nat, r \in 0..(ItemPerPage - 1) :
           /\ j = q * ItemPerPage + r
           /\ j % ItemPerPage = r
<1> DEFINE n == ItemPerPage
           q == j \div n
           r == j % n
<1>1. n \in Int /\ n > 0
  BY PagedListAssumption
<1>2. q \in Int /\ r \in 0..(n - 1)
  BY <1>1
<1>3. q >= 0
  BY <1>1
<1>4. \A x, y \in Int : x = q /\ y = r => j = n * x + y
  BY <1>1, SMTT(20)
<1>5. j = q * n + r
  <2>1. j = n * q + r
    BY <1>2, <1>4
  <2> HIDE DEF q, r
  <2> QED BY <1>1, <1>2, <2>1
<1>6. q \in Nat
  BY <1>2, <1>3
<1> QED BY <1>2, <1>5, <1>6

\* Blocks follow each other without overlap.
LEMMA Apart ==
  ASSUME NEW q \in Int, NEW k \in Int, q < k
  PROVE  q * ItemPerPage + ItemPerPage <= k * ItemPerPage
<1>1. ItemPerPage \in Nat
  BY PagedListAssumption
<1>2. k - q - 1 \in Nat
  OBVIOUS
<1>3. (k - q - 1) * ItemPerPage \in Nat
  BY <1>1, <1>2
<1>4. k * ItemPerPage
        = q * ItemPerPage + ItemPerPage + (k - q - 1) * ItemPerPage
  BY <1>1
<1> QED BY <1>1, <1>3, <1>4

\* The photo of the same page and version in slot k.
Slot(first, k) == [page |-> first.page, ver |-> first.ver, idx |-> k]

\* BlocksWhole, by block and slot.
Whole(list, n) ==
  /\ Len(list) = n * ItemPerPage
  /\ \A q \in 0..(n - 1), r \in 0..(ItemPerPage - 1) :
       list[q * ItemPerPage + r + 1] = Slot(list[q * ItemPerPage + 1], r + 1)

LEMMA WholeIsBlocksWhole ==
  ASSUME items \in Seq(Photo), NEW n \in Nat, Whole(items, n)
  PROVE  BlocksWhole
<1> DEFINE N == ItemPerPage
<1>1. N \in Nat /\ N > 0
  BY PagedListAssumption
<1>2. Len(items) = n * N
  BY DEF Whole
<1> HIDE DEF N
<1>3. ASSUME NEW i \in 1..Len(items)
      PROVE  LET first == items[i - ((i - 1) % N)] IN
             items[i] = [first EXCEPT !.idx = 1 + ((i - 1) % N)]
  <2>1. i - 1 \in Nat
    OBVIOUS
  <2>2. PICK q \in Nat, r \in 0..(N - 1) :
          i - 1 = q * N + r /\ (i - 1) % N = r
    BY <2>1, SlotOf DEF N
  <2>3. q * N \in Nat /\ i = q * N + r + 1 /\ i - r = q * N + 1
    BY <1>1, <2>2
  <2>4. q < n
    <3>1. q * N < n * N
      BY <1>1, <1>2, <2>3
    <3>2. n < q => n * N + N <= q * N
      BY Apart DEF N
    <3> QED BY <1>1, <3>1, <3>2
  <2>5. items[i] = Slot(items[q * N + 1], r + 1)
    BY <2>3, <2>4 DEF Whole, N
  <2>6. items[q * N + 1] \in Photo
    BY <1>2, <2>3
  <2>7. [items[q * N + 1] EXCEPT !.idx = r + 1] = Slot(items[q * N + 1], r + 1)
    BY <2>6 DEF Photo, Slot
  <2>8. i - ((i - 1) % N) = q * N + 1 /\ 1 + ((i - 1) % N) = r + 1
    BY <2>2, <2>3
  <2> QED BY <2>3, <2>5, <2>7, <2>8
<1>4. Len(items) % N = 0
  <2>1. (n * N) % N = 0
    BY <1>1
  <2> QED BY <1>2, <2>1
<1> QED BY <1>3, <1>4 DEF BlocksWhole, N

\* Where the slots of a block are.
LEMMA SlotsOf ==
  ASSUME NEW list, NEW n \in Nat, Whole(list, n),
         NEW q \in 0..(n - 1), NEW r \in 0..(ItemPerPage - 1)
  PROVE  /\ q * ItemPerPage \in Nat
         /\ q * ItemPerPage + r + 1 \in 1..Len(list)
         /\ q * ItemPerPage + 1 \in 1..Len(list)
         /\ list[q * ItemPerPage + r + 1] = Slot(list[q * ItemPerPage + 1], r + 1)
<1>1. ItemPerPage \in Nat /\ ItemPerPage > 0
  BY PagedListAssumption
<1>2. Len(list) = n * ItemPerPage
  BY DEF Whole
<1>3. q * ItemPerPage + ItemPerPage <= n * ItemPerPage
  BY Apart
<1>4. q * ItemPerPage \in Nat /\ n * ItemPerPage \in Nat
  BY <1>1
<1>5. /\ q * ItemPerPage + r + 1 \in 1..Len(list)
      /\ q * ItemPerPage + 1 \in 1..Len(list)
  BY <1>1, <1>2, <1>3, <1>4
<1> QED BY <1>4, <1>5 DEF Whole

\* The photos of a full page.
LEMMA DetailsWhole ==
  ASSUME NEW b \in Body \cup {NoBody}, b.size = ItemPerPage,
         NEW r \in 0..(ItemPerPage - 1)
  PROVE  /\ 1 \in 1..Len(Details(b))
         /\ r + 1 \in 1..Len(Details(b))
         /\ Details(b)[r + 1] = Slot(Details(b)[1], r + 1)
<1>1. ItemPerPage \in Nat /\ ItemPerPage > 0
  BY PagedListAssumption
<1>2. 1 \in 1..b.size /\ r + 1 \in 1..b.size
  BY <1>1
<1>3. /\ Details(b)[r + 1] = [page |-> b.page, ver |-> b.ver, idx |-> r + 1]
      /\ Details(b)[1] = [page |-> b.page, ver |-> b.ver, idx |-> 1]
  BY <1>2, DetailsType
<1> QED BY <1>2, <1>3, DetailsType DEF Slot

\* A full page takes the place of a block, wherever the page is.
LEMMA OverwriteWhole ==
  ASSUME NEW list \in Seq(Photo), NEW n \in Nat, Whole(list, n),
         NEW p \in Int, NEW b \in Body \cup {NoBody}, b.size = ItemPerPage
  PROVE  Whole(Overwrite(list, p, Details(b)), n)
<1> DEFINE N == ItemPerPage
           new == Details(b)
           res == Overwrite(list, p, new)
<1>1. N \in Nat /\ N > 0
  BY PagedListAssumption
<1>2. new \in Seq(Photo) /\ Len(new) = N
  BY DetailsType
<1>3. Off(p) = (p - 1) * N /\ Off(p) \in Int
  BY OffType DEF Off
<1>4. Len(res) = n * N
  BY <1>2, OverwriteType DEF Whole
<1>5. ASSUME NEW i \in 1..Len(list)
      PROVE  res[i] = IF i > Off(p) /\ i <= Off(p) + N THEN new[i - Off(p)]
                                                     ELSE list[i]
  BY <1>2 DEF Overwrite
<1> HIDE DEF new, res
<1>6. ASSUME NEW q \in 0..(n - 1), NEW r \in 0..(N - 1)
      PROVE  res[q * N + r + 1] = Slot(res[q * N + 1], r + 1)
  <2> DEFINE a == q * N
  <2>1. a \in Nat /\ a + r + 1 \in 1..Len(list) /\ a + 1 \in 1..Len(list)
    BY SlotsOf
  <2>2. CASE q = p - 1
    <3>1. Off(p) = a
      BY <1>3, <2>2
    <3> HIDE DEF a
    <3>2. /\ a + r + 1 > Off(p) /\ a + r + 1 <= Off(p) + N
          /\ a + 1 > Off(p) /\ a + 1 <= Off(p) + N
          /\ a + r + 1 - Off(p) = r + 1 /\ a + 1 - Off(p) = 1
      BY <1>1, <2>1, <3>1
    <3>3. res[a + r + 1] = new[r + 1] /\ res[a + 1] = new[1]
      <4>1. res[a + r + 1] = new[a + r + 1 - Off(p)]
        BY <1>1, <1>3, <1>5, <2>1, <3>1, <3>2
      <4>2. res[a + 1] = new[a + 1 - Off(p)]
        BY <1>1, <1>3, <1>5, <2>1, <3>1, <3>2
      <4> QED BY <3>2, <4>1, <4>2
    <3>4. new[r + 1] = Slot(new[1], r + 1)
      BY DetailsWhole DEF new
    <3> QED BY <3>3, <3>4 DEF a
  <2>3. CASE q # p - 1
    <3>1. a + N <= Off(p) \/ Off(p) + N <= a
      <4>1. q < p - 1 \/ p - 1 < q
        BY <2>3
      <4> QED BY <1>3, <4>1, Apart
    <3>2. list[a + r + 1] = Slot(list[a + 1], r + 1)
      BY SlotsOf
    <3> HIDE DEF a
    <3>3. res[a + r + 1] = list[a + r + 1] /\ res[a + 1] = list[a + 1]
      BY <1>1, <1>3, <1>5, <2>1, <3>1
    <3> QED BY <3>2, <3>3 DEF a
  <2> QED BY <2>2, <2>3
<1> QED BY <1>4, <1>6 DEF Whole, res, new

\* A full page that is appended is one block more.
LEMMA AppendWhole ==
  ASSUME NEW list \in Seq(Photo), NEW n \in Nat, Whole(list, n),
         NEW b \in Body \cup {NoBody}, b.size = ItemPerPage
  PROVE  Whole(list \o Details(b), n + 1)
<1> DEFINE N == ItemPerPage
           new == Details(b)
           res == list \o new
<1>1. N \in Nat /\ N > 0
  BY PagedListAssumption
<1>2. new \in Seq(Photo) /\ Len(new) = N
  BY DetailsType
<1>3. Len(list) = n * N
  BY DEF Whole
<1> HIDE DEF new
<1>4. Len(res) = Len(list) + N
  BY <1>2
<1>5. /\ \A i \in 1..Len(list) : res[i] = list[i]
      /\ \A i \in 1..N : res[Len(list) + i] = new[i]
  BY <1>1, <1>2
<1> HIDE DEF res
<1>6. Len(res) = (n + 1) * N
  BY <1>1, <1>3, <1>4
<1>7. ASSUME NEW q \in 0..n, NEW r \in 0..(N - 1)
      PROVE  res[q * N + r + 1] = Slot(res[q * N + 1], r + 1)
  <2> DEFINE a == q * N
  <2>1. CASE q < n
    <3>1. /\ a + r + 1 \in 1..Len(list) /\ a + 1 \in 1..Len(list)
          /\ list[a + r + 1] = Slot(list[a + 1], r + 1)
      BY <2>1, SlotsOf
    <3> HIDE DEF a
    <3> QED BY <1>5, <3>1 DEF a
  <2>2. CASE q = n
    <3>1. a = Len(list)
      BY <1>3, <2>2
    <3>2. new[r + 1] = Slot(new[1], r + 1)
      BY DetailsWhole DEF new
    <3> HIDE DEF a
    <3>3. r + 1 \in 1..N /\ 1 \in 1..N
      BY <1>1
    <3>4. res[a + (r + 1)] = new[r + 1] /\ res[a + 1] = new[1]
      BY <1>5, <3>1, <3>3
    <3>5. a + (r + 1) = a + r + 1
      BY <3>1
    <3> QED BY <3>2, <3>4, <3>5 DEF a
  <2> QED BY <2>1, <2>2
<1>8. \A q \in 0..((n + 1) - 1) : q \in 0..n
  OBVIOUS
<1> QED BY <1>6, <1>7, <1>8 DEF Whole, res, new

\* A merge of a full page, or of none, leaves whole pages.
LEMMA MergeWhole ==
  ASSUME NEW list \in Seq(Photo), NEW n \in Nat, Whole(list, n),
         NEW p \in Int, NEW b \in Body \cup {NoBody},
         b.size \in {0, ItemPerPage}
  PROVE  \E m \in Nat : Whole(Merge(list, p, Details(b)), m)
<1>1. CASE b.size = ItemPerPage
  BY <1>1, OverwriteWhole, AppendWhole DEF Merge
<1>2. CASE b.size = 0
  <2>1. Details(b) = <<>> /\ Off(p) \in Int
    <3>1. Details(b) \in Seq(Photo) /\ Len(Details(b)) = 0
      BY <1>2, DetailsType
    <3> QED BY <3>1, OffType
  <2>2. Overwrite(list, p, <<>>) = list
    <3>1. ASSUME NEW i \in 1..Len(list)
          PROVE  ~(i > Off(p) /\ i <= Off(p) + Len(<<>>))
      BY <2>1
    <3>2. Overwrite(list, p, <<>>) = [i \in 1..Len(list) |-> list[i]]
      BY <3>1 DEF Overwrite
    <3> QED BY <3>2
  <2>3. list \o <<>> = list
    OBVIOUS
  <2> QED BY <2>1, <2>2, <2>3 DEF Merge
<1> QED BY <1>1, <1>2

\* Every body is a full page or holds no photo.
SizesWhole ==
  /\ \A p \in Page : db[p].size \in {0, ItemPerPage}
  /\ \A w \in Worker : body[w].size \in {0, ItemPerPage}

WholeInv ==
  /\ SizesWhole
  /\ \E n \in Nat : Whole(items, n)

LEMMA EmptyWhole == Whole(<<>>, 0)
BY PagedListAssumption DEF Whole

LEMMA WholeStart == Init => WholeInv
<1> SUFFICES ASSUME Init PROVE WholeInv
  OBVIOUS
<1>1. SizesWhole
  BY DEF Init, Fresh, SizesWhole, NoBody
<1> QED BY <1>1, EmptyWhole DEF Init, Fresh, WholeInv

LEMMA WholeDie == WholeInv /\ Die => WholeInv'
<1> SUFFICES ASSUME WholeInv, Die PROVE WholeInv'
  OBVIOUS
<1>1. SizesWhole'
  BY DEF Die, WholeInv, SizesWhole, NoBody
<1> QED BY <1>1, EmptyWhole DEF Die, WholeInv

\* The list is emptied, or the change is lost in a race.
LEMMA WholeCleared ==
  ASSUME WholeInv, NEW w \in Worker, items' \in Cleared(w),
         UNCHANGED <<db, body>>
  PROVE  WholeInv'
<1>1. SizesWhole'
  BY DEF WholeInv, SizesWhole
<1>2. items' = <<>> \/ items' = items
  BY DEF Cleared
<1> QED BY <1>1, <1>2, EmptyWhole DEF WholeInv

\* A page is merged, or the change is lost in a race.
LEMMA WholeMerged ==
  ASSUME Inv, WholeInv, NEW w \in Worker, NEW p \in Int,
         NEW b \in Body \cup {NoBody}, b.size \in {0, ItemPerPage},
         items' \in Merged(w, p, Details(b)), UNCHANGED db,
         \A v \in Worker : body'[v].size \in {0, ItemPerPage}
  PROVE  WholeInv'
<1>1. SizesWhole'
  BY DEF WholeInv, SizesWhole
<1>2. items' = Merge(items, p, Details(b)) \/ items' = items
  BY DEF Merged
<1>3. items \in Seq(Photo)
  BY DEF Inv, TypeOK
<1> QED BY <1>1, <1>2, <1>3, MergeWhole DEF WholeInv

\* Only the streams change.
LEMMA WholeStreams ==
  ASSUME WholeInv, UNCHANGED <<items, db>>,
         \A v \in Worker : body'[v].size \in {0, ItemPerPage}
  PROVE  WholeInv'
<1>1. SizesWhole'
  BY DEF WholeInv, SizesWhole
<1> QED BY <1>1 DEF WholeInv

\* What an answer leaves in the streams: whole, or torn.
LEMMA WholeAnswer ==
  ASSUME Inv, WholeInv, NEW w \in Worker,
         NEW n \in {0, ItemPerPage}, Answer(w, n) \/ HttpFail(w)
  PROVE  WholeInv'
<1> DEFINE text(m) == [page |-> handle.fetch, ver |-> live, size |-> m]
<1>1. body \in [Worker -> Body \cup {NoBody}]
  BY DEF Inv, TypeOK
<1>2. ASSUME NEW m \in {0, ItemPerPage}, NEW v \in Worker
      PROVE  /\ Torn(text(m)).size = 0
             /\ Written(body[w], text(m)).size \in {0, ItemPerPage}
             /\ Spilled(text(m))[v].size \in {0, ItemPerPage}
             /\ Spilled(text(m)) = body
                  \/ Spilled(text(m)) = [body EXCEPT ![handle.sink] = Torn(text(m))]
  <2>1. Torn(text(m)) = [page |-> handle.fetch, ver |-> live, size |-> 0]
    BY DEF Torn
  <2> DEFINE t == text(m)
  <2>2. Torn(t).size = 0 /\ t.size = m
    BY <2>1
  <2> HIDE DEF t
  <2>3. Written(body[w], t).size \in {0, ItemPerPage}
    BY <2>2 DEF Written
  <2>4. /\ Spilled(t)[v].size \in {0, ItemPerPage}
        /\ Spilled(t) = body
             \/ Spilled(t) = [body EXCEPT ![handle.sink] = Torn(t)]
    BY <1>1, <2>2 DEF Spilled, WholeInv, SizesWhole
  <2> QED BY <2>2, <2>3, <2>4 DEF t
<1>3. \/ body' = [body EXCEPT ![w] = Written(body[w], text(n))]
      \/ body' = [Spilled(text(n)) EXCEPT ![w] = Torn(text(n))]
      \/ body' = body
      \/ body' = Spilled(text(0))
  BY DEF Answer, HttpFail
<1>4. UNCHANGED <<items, db>>
  BY DEF Answer, HttpFail
<1> HIDE DEF text
<1>5. \A v \in Worker : body'[v].size \in {0, ItemPerPage}
  <2> SUFFICES ASSUME NEW v \in Worker
               PROVE  body'[v].size \in {0, ItemPerPage}
    OBVIOUS
  <2>1. body[v].size \in {0, ItemPerPage}
    BY DEF WholeInv, SizesWhole
  <2>2. CASE body' = [body EXCEPT ![w] = Written(body[w], text(n))]
    BY <1>1, <1>2, <2>1, <2>2
  <2>3. CASE body' = [Spilled(text(n)) EXCEPT ![w] = Torn(text(n))]
    <3>1. DOMAIN Spilled(text(n)) = Worker
      BY <1>1, <1>2
    <3>2. body'[v] = IF v = w THEN Torn(text(n)) ELSE Spilled(text(n))[v]
      BY <2>3, <3>1
    <3> QED BY <1>2, <3>2
  <2>4. CASE body' = body \/ body' = Spilled(text(0))
    BY <1>2, <2>1, <2>4
  <2> QED BY <1>3, <2>2, <2>3, <2>4
<1> QED BY <1>4, <1>5, WholeStreams

\* request returns.
LEMMA WholeReturn ==
  ASSUME Inv, WholeInv, NEW w \in Worker, Return(w), UNCHANGED <<items, db>>
  PROVE  WholeInv'
<1>1. body' = [body EXCEPT ![w] = NoBody] /\ NoBody.size = 0
  BY DEF Return, NoBody
<1>2. \A v \in Worker : body'[v].size \in {0, ItemPerPage}
  BY <1>1 DEF Inv, TypeOK, WholeInv, SizesWhole
<1> QED BY <1>2, WholeStreams

LEMMA WholeSave ==
  ASSUME Inv, WholeInv, NEW w \in Worker, Save(w) PROVE WholeInv'
<1>1. NoBody.size = 0
  BY DEF NoBody
<1>2. SizesWhole'
  BY <1>1 DEF Save, Return, Inv, TypeOK, WholeInv, SizesWhole
<1> QED BY <1>2 DEF Save, WholeInv

LEMMA WholeContinue ==
  ASSUME Sizes \subseteq {0, ItemPerPage},
         Inv, WholeInv, NEW w \in Worker, Continue(w)
  PROVE  WholeInv'
<1>1. CASE UNCHANGED <<items, db, body>>
  BY <1>1 DEF WholeInv, SizesWhole
<1>2. CASE BeginUpdate(w) \/ Shows(w)
  BY <1>1, <1>2 DEF BeginUpdate, Shows, ShowCache, ShowAnswer, ShowError
<1>3. CASE SetUrl(w) \/ SetSink(w) \/ Perform(w) \/ Refused(w)
  BY <1>1, <1>3 DEF SetUrl, SetSink, Perform, Refused
<1>4. CASE ReadCache(w)
  <2>1. page[w] \in Page
    BY <1>4 DEF ReadCache, At, Inv, InFlight
  <2>2. db[page[w]].size \in {0, ItemPerPage}
    BY <2>1 DEF WholeInv, SizesWhole
  <2>3. \A v \in Worker : body'[v].size \in {0, ItemPerPage}
    BY <1>4, <2>2 DEF ReadCache, Inv, TypeOK, WholeInv, SizesWhole
  <2> QED BY <1>4, <2>3, WholeStreams DEF ReadCache
<1>10. CASE MergeCache(w)
  <2>1. page[w] \in Int
    BY <1>10, PagedListAssumption DEF MergeCache, At, Inv, InFlight, Page
  <2>2. /\ body[w] \in Body \cup {NoBody}
        /\ body[w].size \in {0, ItemPerPage}
    BY DEF Inv, TypeOK, WholeInv, SizesWhole
  <2>3. \A v \in Worker : body'[v].size \in {0, ItemPerPage}
    BY <1>10 DEF MergeCache, NoBody, Inv, TypeOK, WholeInv, SizesWhole
  <2> QED BY <1>10, <2>1, <2>2, <2>3, WholeMerged DEF MergeCache
<1>5. CASE Succeed(w)
  <2>1. page[w] \in Nat
    BY <1>5, PagedListAssumption DEF Succeed, At, Inv, InFlight, Page
  <2>2. /\ body[w] \in Body \cup {NoBody}
        /\ body[w].size \in {0, ItemPerPage}
    BY DEF Inv, TypeOK, WholeInv, SizesWhole
  <2>3. \A v \in Worker : body'[v].size \in {0, ItemPerPage}
    BY <1>5 DEF Succeed, WholeInv, SizesWhole
  <2> QED BY <1>5, <2>1, <2>2, <2>3, PageOfType, WholeMerged DEF Succeed
<1>6. CASE NullCall(w)
  BY <1>6, WholeDie DEF NullCall
<1>7. CASE (\E n \in Sizes : Answer(w, n)) \/ HttpFail(w)
  BY <1>7, WholeAnswer
<1>8. CASE Fail(w) \/ EndUpdate(w)
  BY <1>1, <1>8, WholeReturn DEF Fail, EndUpdate
<1>9. CASE Save(w)
  BY <1>9, WholeSave
<1> QED BY <1>2, <1>3, <1>4, <1>5, <1>6, <1>7, <1>8, <1>9, <1>10
        DEF Continue, Shows

LEMMA WholeNext ==
  ASSUME Sizes \subseteq {0, ItemPerPage}
  PROVE  Inv /\ WholeInv /\ [Next]_vars => WholeInv'
<1> SUFFICES ASSUME Inv, WholeInv, [Next]_vars PROVE WholeInv'
  OBVIOUS
<1>1. CASE UNCHANGED <<items, db, body>>
  BY <1>1 DEF WholeInv, SizesWhole
<1>2. ASSUME NEW w \in Worker, NEW p \in Page, Request(w, p) PROVE WholeInv'
  BY <1>1, <1>2 DEF Request
<1>3. ASSUME NEW w \in Worker, Reset(w) PROVE WholeInv'
  BY <1>3, WholeCleared DEF Reset
<1>4. ASSUME NEW w \in Worker, Continue(w) PROVE WholeInv'
  BY <1>4, WholeContinue
<1>5. CASE Unsubscribe \/ Change \/ Launch \/ UNCHANGED vars
  BY <1>1, <1>5 DEF Unsubscribe, Change, Launch, vars
<1>6. CASE Crash
  BY <1>6, WholeDie DEF Crash
<1> QED BY <1>2, <1>3, <1>4, <1>5, <1>6 DEF Next

\* If the server sends full pages, or none, the list is made of whole pages, each
\* in one version, for any number of workers that race on it, in whatever order
\* the pages are requested, and whatever page the digit read back from the URL
\* names (explore_controller.cpp:36-41, 92-105).
THEOREM BlocksWholeCorrect ==
  ASSUME Sizes \subseteq {0, ItemPerPage} PROVE Spec => []BlocksWhole
<1>1. Inv /\ WholeInv => BlocksWhole
  BY WholeIsBlocksWhole DEF Inv, TypeOK, WholeInv
<1>2. Inv /\ WholeInv /\ [Next]_vars => WholeInv'
  BY WholeNext
<1> QED BY <1>1, <1>2, WholeStart, InvCorrect, PTL DEF Spec
=============================================================================
