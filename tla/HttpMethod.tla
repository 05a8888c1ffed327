----------------------------- MODULE HttpMethod -----------------------------
(***************************************************************************)
(* youth/net/http/HttpMethodBuilder: the methods that a program registers  *)
(* with its server, and the choice of one for a request.  An entry has a   *)
(* weak pointer to the factory that offers it; the program may drop the    *)
(* factory at any time, and every search erases the entries it passes      *)
(* whose factory is gone.                                                  *)
(*                                                                         *)
(* Everything but the drop happens in the server's loop.  A factory offers *)
(* pairs of a method and a path; registerMethod takes them one by one.     *)
(***************************************************************************)
EXTENDS Integers, Sequences
LOCAL INSTANCE SequencesExt

CONSTANTS
  Factories,
  Offers,      \* per factory: the pairs of a method and a path, in order
  MaxOffers    \* bound: offers that are registered

Pairs == UNION {Range(Offers[f]) : f \in Factories}
Verbs == {pair[1] : pair \in Pairs}

ASSUME MethodAssumption ==
  /\ \A f \in Factories : Offers[f] \in Seq(STRING \X STRING) /\ Offers[f] # <<>>
  /\ MaxOffers \in Nat

VARIABLES
  m_methodMap,  \* per method: the entries, each a factory and an index
  held,         \* the factories that exist
  registering,  \* the factory that is being registered and the next index
  order,        \* history: the entries that were to be made, in order
  refused       \* history: registerMethod has found a duplicate

methodVars == <<m_methodMap, held, registering, order, refused>>

Nobody == [factory |-> "nobody", index |-> 0]

Verb(e) == Offers[e.factory][e.index][1]
Path(e) == Offers[e.factory][e.index][2]

Offered == UNION {{[factory |-> f, index |-> i] : i \in DOMAIN Offers[f]} : f \in Factories}

MethodTypeOK ==
  /\ \A m \in Verbs : Range(m_methodMap[m]) \subseteq Offered
  /\ held \subseteq Factories
  /\ registering \in Offered \cup {Nobody}
  /\ Range(order) \subseteq Offered
  /\ refused \in BOOLEAN

MethodInit ==
  /\ m_methodMap = [m \in Verbs |-> <<>>]
  /\ held = Factories
  /\ registering = Nobody
  /\ order = <<>> /\ refused = FALSE

\* methodImpl.lock()
Live(e) == e.factory \in held

\* Mutant: the weak pointer is not looked at.
FirstLive_Any(list, path) == SelectInSeq(list, LAMBDA e : Path(e) = path)

\* Where the search of a list for a path stops, 0 if at its end
FirstLive(list, path) == SelectInSeq(list, LAMBDA e : Live(e) /\ Path(e) = path)

\* The list after the search: what it passed has lost its dead entries.
Searched(list, stop) ==
  LET n == IF stop = 0 THEN Len(list) ELSE stop - 1
  IN  SelectSeq(SubSeq(list, 1, n), Live) \o SubSeq(list, n + 1, Len(list))

\* What a request calls: the first entry for its path
Called(m, path) ==
  LET stop == FirstLive(m_methodMap[m], path)
  IN  IF stop = 0 THEN Nobody ELSE m_methodMap[m][stop]

\* registerMethod is called with a factory.
Register(f) ==
  /\ registering = Nobody /\ f \in held
  /\ Len(order) + Len(Offers[f]) <= MaxOffers
  /\ registering' = [factory |-> f, index |-> 1]
  /\ order' = order \o [i \in DOMAIN Offers[f] |-> [factory |-> f, index |-> i]]
  /\ UNCHANGED <<m_methodMap, held, refused>>

\* A round of its loop.  The test for a duplicate compares the path of an
\* entry with the new method, and a duplicate ends the call.
RegisterNext ==
  /\ registering # Nobody
  /\ LET m == Verb(registering)
         stop == FirstLive(m_methodMap[m], m)
         kept == Searched(m_methodMap[m], stop)
         last == registering.index = Len(Offers[registering.factory])
     IN  /\ m_methodMap' = [m_methodMap EXCEPT ![m] =
                              IF stop # 0 THEN kept ELSE Append(kept, registering)]
         /\ refused' = (refused \/ stop # 0)
         /\ registering' = IF stop # 0 \/ last THEN Nobody
                           ELSE [registering EXCEPT !.index = @ + 1]
  /\ UNCHANGED <<held, order>>

\* onReadyRead and onRequest search the list of the request's method.
Dispatch(m, path) ==
  /\ registering = Nobody
  /\ m_methodMap' = [m_methodMap EXCEPT ![m] = Searched(@, FirstLive(@, path))]
  /\ UNCHANGED <<held, registering, order, refused>>

\* The program drops a factory; registerMethod holds the one it works on.
Drop(f) ==
  /\ f \in held /\ registering.factory # f
  /\ held' = held \ {f}
  /\ UNCHANGED <<m_methodMap, registering, order, refused>>

MethodNext ==
  \/ \E f \in Factories : Register(f) \/ Drop(f)
  \/ RegisterNext
  \/ \E pair \in Pairs : Dispatch(pair[1], pair[2])

-----------------------------------------------------------------------------
(* Property                                                                *)

\* Who should be called: of those that were registered and exist, the first
Due(m, path) ==
  LET c == SelectSeq(order, LAMBDA e : Live(e) /\ Verb(e) = m /\ Path(e) = path)
  IN  IF c = <<>> THEN Nobody ELSE c[1]

(***************************************************************************)
(* onReadyRead and onRequest: however registrations, requests and drops    *)
(* alternate, a request goes to the factory that was registered first for  *)
(* its method and path and still exists, to none that is gone, and to the  *)
(* default only if there is none; what a search erases is never the entry  *)
(* of another.  (Two factories may offer the same: the test for a          *)
(* duplicate does not see it.  It sees only a path that is spelt as the    *)
(* method, and then the rest of the factory's offers is not registered.)   *)
(***************************************************************************)
FirstRegisteredAnswers ==
  (registering = Nobody /\ ~ refused) =>
    \A pair \in Pairs : Called(pair[1], pair[2]) = Due(pair[1], pair[2])
=============================================================================
