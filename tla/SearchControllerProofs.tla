------------------------- MODULE SearchControllerProofs -------------------------
(***************************************************************************)
(* Type correctness of the search controller and its refinement of the     *)
(* observer contract, for any set of workers that share it without a lock. *)
(***************************************************************************)
EXTENDS SearchController, TLAPS

\* A search under way has its key.
Keyed == \A w \in Worker : pc[w] # "idle" => key[w] \in Key

Inv == SearchTypeOK /\ Keyed

LEMMA InitInv == SearchInit => Inv
<1> SUFFICES ASSUME SearchInit PROVE Inv
  OBVIOUS
<1>1. view \in ViewData
  BY DEF SearchInit, Fresh, NoView, ViewData
<1> QED BY <1>1 DEF SearchInit, Fresh, Step, Inv, SearchTypeOK, Keyed, Answers

LEMMA DieInv == Die => Inv'
<1> SUFFICES ASSUME Die PROVE Inv'
  OBVIOUS
<1>1. view' \in ViewData
  BY DEF Die, NoView, ViewData
<1>2. /\ items' \in Seq(Key)
      /\ pc' \in [Worker -> Step]
      /\ key' \in [Worker -> Key \cup {NoKey}]
  BY DEF Die, Step
<1>3. /\ asked' \in [Worker -> SUBSET Key]
      /\ text' \in [Worker -> Answers]
      /\ heard' \in [Worker -> {"quiet", "begun", "told"}]
  BY DEF Die, Answers
<1>4. Keyed'
  BY DEF Die, Keyed
<1> QED BY <1>1, <1>2, <1>3, <1>4 DEF Die, Inv, SearchTypeOK

LEMMA ShowType ==
  ASSUME Inv, NEW w \in Worker, NEW e \in BOOLEAN, Show(w, e)
  PROVE  /\ view' \in ViewData
         /\ heard' \in [Worker -> {"quiet", "begun", "told"}]
BY DEF Show, Hear, Inv, SearchTypeOK, ViewData

LEMMA SearchInv ==
  ASSUME Inv, NEW w \in Worker, NEW k \in Key, Search(w, k) PROVE Inv'
BY DEF Search, At, Goto, Step, Inv, SearchTypeOK, Keyed

LEMMA ResetInv == ASSUME Inv, NEW w \in Worker, Reset(w) PROVE Inv'
<1>1. items' \in Seq(Key)
  <2>1. items' = <<>> \/ items' = items
    BY DEF Reset
  <2>2. items \in Seq(Key)
    BY DEF Inv, SearchTypeOK
  <2>3. <<>> \in Seq(Key)
    OBVIOUS
  <2> QED BY <2>1, <2>2, <2>3
<1>2. UNCHANGED <<alive, observer, recents, pc, key, asked, text, view, heard>>
  BY DEF Reset
<1> QED BY <1>1, <1>2 DEF Inv, SearchTypeOK, Keyed

LEMMA RememberInv == ASSUME Inv, NEW w \in Worker, Remember(w) PROVE Inv'
<1>1. recents' \in SUBSET Key
  <2>1. recents \subseteq Key /\ key[w] \in Key
    BY DEF Remember, At, Inv, SearchTypeOK, Keyed
  <2>2. recents' = recents \cup {key[w]} \/ recents' = recents
    BY DEF Remember
  <2> QED BY <2>1, <2>2
<1> QED BY <1>1 DEF Remember, At, Goto, Step, Inv, SearchTypeOK, Keyed

LEMMA BeginUpdateInv == ASSUME Inv, NEW w \in Worker, BeginUpdate(w) PROVE Inv'
<1>1. asked' \in [Worker -> SUBSET Key]
  <2> DEFINE within == Others(w, {"transfer"})
  <2>1. key[w] \in Key
    BY DEF BeginUpdate, At, Inv, Keyed
  <2>2. within \subseteq Worker
    BY DEF Others
  <2>3. UNION {asked[u] : u \in within} \subseteq Key
    BY <2>2 DEF Inv, SearchTypeOK
  <2>4. \A v \in Worker : asked[v] \subseteq Key
    BY DEF Inv, SearchTypeOK
  <2>5. asked' = [v \in Worker |->
                    IF v = w THEN {key[w]} \cup UNION {asked[u] : u \in within}
                    ELSE IF v \in within THEN asked[v] \cup {key[w]}
                    ELSE asked[v]]
    BY DEF BeginUpdate
  <2> HIDE DEF within
  <2> QED BY <2>1, <2>3, <2>4, <2>5
<1> QED BY <1>1 DEF BeginUpdate, At, Goto, Hear, Step, Inv, SearchTypeOK, Keyed

LEMMA AnswerInv ==
  ASSUME Inv, NEW w \in Worker, NEW t \in Answers, Answer(w, t) PROVE Inv'
BY DEF Answer, At, Goto, Step, Inv, SearchTypeOK, Keyed

LEMMA HttpFailInv == ASSUME Inv, NEW w \in Worker, HttpFail(w) PROVE Inv'
BY DEF HttpFail, At, Goto, Step, Inv, SearchTypeOK, Keyed

LEMMA ExtendInv == ASSUME Inv, NEW w \in Worker, Extend(w) PROVE Inv'
<1>1. items' \in Seq(Key)
  <2>1. items \in Seq(Key) /\ (text[w] \in Key => Append(items, text[w]) \in Seq(Key))
    BY DEF Inv, SearchTypeOK
  <2>2. items' = items \/ (text[w] \in Key /\ items' = Append(items, text[w]))
    BY DEF Extend
  <2> QED BY <2>1, <2>2
<1> QED BY <1>1 DEF Extend, At, Goto, Step, Inv, SearchTypeOK, Keyed

LEMMA ReturnInv ==
  ASSUME Inv, NEW w \in Worker, pc[w] # "idle",
         \/ Return(w)
         \/ \E to \in {"telling", "failing", "ending"} :
              Goto(w, to) /\ UNCHANGED <<key, text>>
  PROVE  /\ pc' \in [Worker -> Step]
         /\ key' \in [Worker -> Key \cup {NoKey}]
         /\ text' \in [Worker -> Answers]
         /\ Keyed'
BY DEF Return, Goto, Step, Inv, SearchTypeOK, Keyed, Answers

LEMMA TestInv == ASSUME Inv, NEW w \in Worker, Succeed(w) \/ Fail(w) PROVE Inv'
BY ReturnInv DEF Succeed, Fail, At, Inv, SearchTypeOK

LEMMA ShowInv ==
  ASSUME Inv, NEW w \in Worker, ShowAnswer(w) \/ ShowError(w) PROVE Inv'
BY ReturnInv, ShowType DEF ShowAnswer, ShowError, At, Inv, SearchTypeOK

LEMMA EndUpdateInv == ASSUME Inv, NEW w \in Worker, EndUpdate(w) PROVE Inv'
BY ReturnInv DEF EndUpdate, At, Hear, Inv, SearchTypeOK

LEMMA ContinueInv == ASSUME Inv, NEW w \in Worker, Continue(w) PROVE Inv'
BY RememberInv, BeginUpdateInv, AnswerInv, HttpFailInv, ExtendInv, TestInv,
   ShowInv, EndUpdateInv, DieInv DEF Continue, Throw, NullCall

LEMMA NextInv == Inv /\ [SearchNext]_searchVars => Inv'
<1> SUFFICES ASSUME Inv, [SearchNext]_searchVars PROVE Inv'
  OBVIOUS
<1>1. CASE Unsubscribe
  BY <1>1 DEF Unsubscribe, Inv, SearchTypeOK, Keyed
<1>2. CASE Launch
  BY <1>2 DEF Launch, Inv, SearchTypeOK, Keyed
<1>3. CASE UNCHANGED searchVars
  BY <1>3 DEF searchVars, Inv, SearchTypeOK, Keyed
<1> QED BY <1>1, <1>2, <1>3, SearchInv, ResetInv, ContinueInv, DieInv
        DEF SearchNext, Crash

\* Every variable of the controller keeps its type, and a search under way has
\* its key (search_controller.cpp:29-108), whatever other workers do.
THEOREM SearchInvCorrect == SearchSpec => []Inv
BY InitInv, NextInv, PTL DEF SearchSpec

\* In particular what the list and the recent searches hold are keys, and the
\* observer is given such lists only.
THEOREM SearchTypeCorrect == SearchSpec => []SearchTypeOK
<1>1. Inv => SearchTypeOK
  BY DEF Inv
<1> QED BY <1>1, SearchInvCorrect, PTL
-----------------------------------------------------------------------------
(* The observer contract *)

\* What the observer has heard of a search, as far as the point it is at tells.
Heard(w) ==
  /\ pc[w] \in {"idle", "insert", "begin"} => heard[w] = "quiet" \/ ~observer
  /\ pc[w] \in {"transfer", "answered", "failed", "appended", "telling", "failing"}
       => heard[w] = "begun"
  /\ pc[w] = "ending" => heard[w] = "told"

\* A process that is not running has told nobody anything.
ContractInv ==
  /\ \A w \in Worker : Heard(w)
  /\ ~alive => /\ ~observer
               /\ heard = [w \in Worker |-> "quiet"]
               /\ view = NoView

LEMMA ContractInvInit == SearchInit => ContractInv
BY DEF SearchInit, Fresh, ContractInv, Heard

LEMMA ContractInvDie == Die => ContractInv'
BY DEF Die, ContractInv, Heard

LEMMA ContractInvContinue ==
  ASSUME NEW w \in Worker, Inv, ContractInv, Continue(w) PROVE ContractInv'
<1>1. pc \in [Worker -> Step]
      /\ heard \in [Worker -> {"quiet", "begun", "told"}]
  BY DEF Inv, SearchTypeOK
<1> USE <1>1 DEF ContractInv, Heard, At, Goto, Hear, Show, Return
<1>2. CASE Remember(w) \/ Extend(w) \/ HttpFail(w)
  BY <1>2 DEF Remember, Extend, HttpFail
<1>3. CASE BeginUpdate(w)
  BY <1>3 DEF BeginUpdate
<1>4. CASE \E t \in Answers : Answer(w, t)
  BY <1>4 DEF Answer
<1>5. CASE Succeed(w) \/ Fail(w)
  BY <1>5 DEF Succeed, Fail
<1>6. CASE ShowAnswer(w) \/ ShowError(w)
  BY <1>6 DEF ShowAnswer, ShowError
<1>7. CASE EndUpdate(w)
  BY <1>7 DEF EndUpdate
<1>8. CASE Throw(w) \/ NullCall(w)
  BY <1>8, ContractInvDie DEF Throw, NullCall
<1> QED BY <1>2, <1>3, <1>4, <1>5, <1>6, <1>7, <1>8 DEF Continue

LEMMA ContractInvNext == Inv /\ ContractInv /\ [SearchNext]_searchVars => ContractInv'
<1> SUFFICES ASSUME Inv, ContractInv, [SearchNext]_searchVars PROVE ContractInv'
  OBVIOUS
<1>1. ASSUME NEW w \in Worker, NEW k \in Key, Search(w, k) PROVE ContractInv'
  BY <1>1 DEF Search, ContractInv, Heard, At, Goto, Inv, SearchTypeOK
<1>2. ASSUME NEW w \in Worker, Reset(w) PROVE ContractInv'
  BY <1>2 DEF Reset, ContractInv, Heard, At
<1>3. CASE Unsubscribe
  BY <1>3 DEF Unsubscribe, ContractInv, Heard
<1>4. CASE Launch
  BY <1>4 DEF Launch, ContractInv, Heard
<1>5. CASE UNCHANGED searchVars
  BY <1>5 DEF searchVars, ContractInv, Heard
<1> QED BY <1>1, <1>2, <1>3, <1>4, <1>5, ContractInvContinue, ContractInvDie
        DEF SearchNext, Crash

LEMMA ContractStart == SearchInit => Contract!ContractInit
BY DEF SearchInit, Fresh, Contract!ContractInit, Contract!Silence

\* A step of a search maps to a callback, to the end of the process, or to
\* nothing the observer can tell.
LEMMA ContractContinue ==
  ASSUME NEW w \in Worker, Inv, ContractInv, Continue(w)
  PROVE  [Contract!ContractNext]_(Contract!contractVars)
<1> USE DEF Contract!contractVars
<1>1. CASE BeginUpdate(w)
  <2>1. Contract!Begin(w)
    BY <1>1 DEF BeginUpdate, Hear, At, ContractInv, Heard, Contract!Begin
  <2> QED BY <2>1 DEF Contract!ContractNext
<1>2. ASSUME NEW e \in BOOLEAN, observer, heard[w] = "begun", Show(w, e),
             observer' = observer
      PROVE  Contract!Tell(w)
  BY <1>2, ShowType DEF Show, Hear, Contract!Tell
<1>3. CASE ShowAnswer(w) \/ ShowError(w)
  <2>1. Contract!Tell(w)
    BY <1>2, <1>3 DEF ShowAnswer, ShowError, At, ContractInv, Heard
  <2> QED BY <2>1 DEF Contract!ContractNext
<1>4. CASE Succeed(w) \/ Fail(w)
  BY <1>4 DEF Succeed, Fail
<1>5. CASE EndUpdate(w)
  <2>1. Contract!End(w)
    BY <1>5 DEF EndUpdate, Hear, At, ContractInv, Heard, Contract!End
  <2> QED BY <2>1 DEF Contract!ContractNext
<1>6. CASE Throw(w) \/ NullCall(w)
  <2>1. Contract!Stop
    BY <1>6 DEF Throw, NullCall, Die, Contract!Stop, Contract!Silence
  <2> QED BY <2>1 DEF Contract!ContractNext
<1>7. CASE Remember(w) \/ Extend(w) \/ HttpFail(w)
  BY <1>7 DEF Remember, Extend, HttpFail
<1>8. CASE \E t \in Answers : Answer(w, t)
  BY <1>8 DEF Answer
<1> QED BY <1>1, <1>3, <1>4, <1>5, <1>6, <1>7, <1>8 DEF Continue

LEMMA ContractStep ==
  Inv /\ ContractInv /\ [SearchNext]_searchVars
    => [Contract!ContractNext]_(Contract!contractVars)
<1> SUFFICES ASSUME Inv, ContractInv, [SearchNext]_searchVars
             PROVE  [Contract!ContractNext]_(Contract!contractVars)
  OBVIOUS
<1> USE DEF Contract!contractVars
<1>1. ASSUME NEW w \in Worker, Reset(w) \/ \E k \in Key : Search(w, k)
      PROVE  UNCHANGED <<observer, heard, view>>
  BY <1>1 DEF Reset, Search
<1>2. CASE Unsubscribe
  <2>1. Contract!Detach
    BY <1>2 DEF Unsubscribe, Contract!Detach
  <2> QED BY <2>1 DEF Contract!ContractNext
<1>3. CASE Crash
  <2>1. Contract!Stop
    BY <1>3 DEF Crash, Die, Contract!Stop, Contract!Silence
  <2> QED BY <2>1 DEF Contract!ContractNext
<1>4. CASE Launch
  <2>1. Contract!Attach
    BY <1>4 DEF Launch, ContractInv, Contract!Attach, Contract!Silence
  <2> QED BY <2>1 DEF Contract!ContractNext
<1>5. CASE UNCHANGED searchVars
  BY <1>5 DEF searchVars
<1> QED BY <1>1, <1>2, <1>3, <1>4, <1>5, ContractContinue DEF SearchNext

\* With any number of searches overlapping on the unlocked members, the observer
\* of the controller hears begin, one update and end of each search, and nothing
\* once it has unsubscribed (search_controller.cpp:18-27, 29-108).
THEOREM SearchContractKept == SearchSpec => KeepsContract
<1>1. SearchSpec => []ContractInv
  BY ContractInvInit, ContractInvNext, SearchInvCorrect, PTL DEF SearchSpec
<1> QED
  BY <1>1, ContractStart, ContractStep, SearchInvCorrect, PTL
  DEF SearchSpec, KeepsContract, Contract!ContractSpec
-----------------------------------------------------------------------------
(* What was found is remembered, as long as searches do not overlap.       *)

\* There is one worker at most.
Serial == \A v, w \in Worker : v = w

\* The one search under way asked for its own key, got an answer to it, and its
\* key is in the set from the insertion on.
AsksItsKey ==
  \A w \in Worker :
    /\ asked[w] \subseteq {key[w]}
    /\ text[w] \in {key[w], NoPhotos, NoTotal}
    /\ pc[w] \notin {"idle", "insert"} => key[w] \in recents
    /\ text[w] \in Key => pc[w] \in {"answered", "appended", "telling", "ending"}
    /\ asked[w] # {} => pc[w] = "transfer"

RememberInvariant == AsksItsKey /\ FoundIsRemembered

LEMMA RememberStart == SearchInit => RememberInvariant
BY SearchAssumption
   DEF SearchInit, Fresh, RememberInvariant, AsksItsKey, FoundIsRemembered

LEMMA RememberDie == Die => RememberInvariant'
BY SearchAssumption DEF Die, RememberInvariant, AsksItsKey, FoundIsRemembered

\* Nobody else is at any point of a search.
LEMMA NoOthers ==
  ASSUME Serial, NEW w \in Worker, NEW points PROVE Others(w, points) = {}
BY DEF Serial, Others

LEMMA RememberContinue ==
  ASSUME Serial, NEW w \in Worker, Inv, RememberInvariant, Continue(w)
  PROVE  RememberInvariant'
<1>1. /\ items \in Seq(Key) /\ recents \subseteq Key
      /\ pc \in [Worker -> Step]
      /\ key \in [Worker -> Key \cup {NoKey}]
      /\ asked \in [Worker -> SUBSET Key]
      /\ text \in [Worker -> Answers]
      /\ NoPhotos \notin Key /\ NoTotal \notin Key /\ NoKey \notin Key
      /\ NoKey \notin {NoPhotos, NoTotal}
      /\ pc[w] # "idle" => key[w] \in Key
  BY SearchAssumption DEF Inv, SearchTypeOK, Keyed
<1>2. \A v \in Worker : v = w
  BY DEF Serial
<1>3. \A points : Others(w, points) = {}
  BY NoOthers
<1> USE <1>1, <1>2 DEF RememberInvariant, AsksItsKey, FoundIsRemembered, At, Goto
<1>4. CASE Remember(w)
  BY <1>3, <1>4 DEF Remember
<1>5. CASE BeginUpdate(w)
  <2>1. asked' = [v \in Worker |-> {key[w]}]
    BY <1>3, <1>5 DEF BeginUpdate
  <2>2. pc'[w] = "transfer" /\ pc[w] = "begin" /\ text[w] \notin Key
    BY <1>5 DEF BeginUpdate
  <2>3. UNCHANGED <<items, recents, key, text>>
    BY <1>5 DEF BeginUpdate
  <2> QED BY <2>1, <2>2, <2>3
<1>6. CASE \E t \in Answers : Answer(w, t)
  BY <1>6 DEF Answer
<1>7. CASE HttpFail(w)
  BY <1>7 DEF HttpFail
<1>8. CASE Extend(w)
  <2>1. items' = items \/ (text[w] = key[w] /\ items' = Append(items, text[w]))
    BY <1>3, <1>8 DEF Extend
  <2>2. key[w] \in recents /\ recents' = recents /\ key[w] \in Key
    BY <1>8 DEF Extend
  <2>3. FoundIsRemembered'
    BY <2>1, <2>2
  <2> QED BY <1>8, <2>3 DEF Extend
<1>9. CASE Succeed(w) \/ Fail(w)
  BY <1>9 DEF Succeed, Fail, Return
<1>10. CASE ShowAnswer(w) \/ ShowError(w)
  BY <1>10 DEF ShowAnswer, ShowError
<1>11. CASE EndUpdate(w)
  BY <1>11 DEF EndUpdate, Return
<1>12. CASE Throw(w) \/ NullCall(w)
  BY <1>12, RememberDie DEF Throw, NullCall
<1> QED BY <1>4, <1>5, <1>6, <1>7, <1>8, <1>9, <1>10, <1>11, <1>12 DEF Continue

LEMMA RememberNext ==
  ASSUME Serial PROVE Inv /\ RememberInvariant /\ [SearchNext]_searchVars
                        => RememberInvariant'
<1> SUFFICES ASSUME Inv, RememberInvariant, [SearchNext]_searchVars
             PROVE  RememberInvariant'
  OBVIOUS
<1> USE DEF RememberInvariant, AsksItsKey, FoundIsRemembered
<1>1. ASSUME NEW w \in Worker, NEW k \in Key, Search(w, k) PROVE RememberInvariant'
  <2>1. text[w] \in {NoPhotos, NoTotal} /\ asked[w] = {}
    BY <1>1 DEF Search, At, Inv, SearchTypeOK, Answers
  <2> QED BY <1>1, <2>1 DEF Search, At, Goto, Inv, SearchTypeOK, Serial
<1>2. ASSUME NEW w \in Worker, Reset(w) PROVE RememberInvariant'
  <2>1. items' = <<>>
    BY <1>2, NoOthers DEF Reset
  <2> QED BY <1>2, <2>1 DEF Reset
<1>3. ASSUME NEW w \in Worker, Continue(w) PROVE RememberInvariant'
  BY <1>3, RememberContinue
<1>4. CASE Unsubscribe
  BY <1>4 DEF Unsubscribe
<1>5. CASE Crash
  BY <1>5, RememberDie DEF Crash
<1>6. CASE Launch
  BY <1>6 DEF Launch
<1>7. CASE UNCHANGED searchVars
  BY <1>7 DEF searchVars
<1> QED BY <1>1, <1>2, <1>3, <1>4, <1>5, <1>6, <1>7 DEF SearchNext

\* With one worker, whatever is in the list was found for a key that
\* fetch_recents offers, for any keys and any answers of the server
\* (search_controller.cpp:18-27, 35, 74-89).
THEOREM FoundIsRememberedCorrect ==
  ASSUME Serial PROVE SearchSpec => []FoundIsRemembered
<1>1. SearchSpec => []RememberInvariant
  BY RememberStart, RememberNext, SearchInvCorrect, PTL DEF SearchSpec
<1>2. RememberInvariant => FoundIsRemembered
  BY DEF RememberInvariant
<1> QED BY <1>1, <1>2, PTL
=============================================================================
