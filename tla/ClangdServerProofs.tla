------------------------- MODULE ClangdServerProofs -------------------------
(* The rebuild protocol of clangd's CppFile is right for any number of     *)
(* requests, units and threads that run continuations, and the server uses *)
(* its CppFiles as that protocol allows.                                   *)
EXTENDS ClangdServer, FiniteSetTheorems, TLAPS

-----------------------------------------------------------------------------
(* CppFile.                                                                *)

(* The requests whose continuation has yet to do anything.                 *)
Pending == {"deferred", "waiting", "asleep"}

(* Requests are numbered in order, and RebuildCounter is the number of the *)
(* newest request of its unit.                                             *)
Numbered ==
  /\ \A r \in Requests : /\ pc[r] = "unborn" <=> r > made
                         /\ r <= made => r <= counter[unit[r]]
  /\ \A u \in Units : /\ counter[u] <= made
                      /\ counter[u] # 0 => unit[counter[u]] = u

(* A promise belongs to one unit, and to none before it is made.           *)
Promised ==
  /\ \A u \in Units : /\ preamble[u] <= counter[u] /\ ast[u] <= counter[u]
                      /\ preamble[u] # 0 => unit[preamble[u]] = u
                      /\ ast[u] # 0 => unit[ast[u]] = u
  /\ \A m \in Makers : m > made => preambleBy[m] = None /\ astBy[m] = None
  /\ preambleBy[0] = 0 /\ astBy[0] = 0

(* How far the newest request of a unit is, its futures tell.              *)
Staged ==
  \A u \in Units : counter[u] # 0 =>
    /\ PreambleReady(u) <=> pc[counter[u]] \notin Pending \cup {"preamble"}
    /\ ASTReady(u) <=> pc[counter[u]] \notin Pending \cup {"preamble", "ast"}

(* While a cancelled rebuild is under way, the newest request waits.       *)
Ordered ==
  \A r \in Requests : pc[r] \in {"preamble", "ast", "leave"} /\ ~Current(r)
                        => pc[counter[unit[r]]] \in Pending

IInv == /\ FileTypeOK /\ Numbered /\ Promised /\ Staged /\ Ordered
        /\ OneRebuild /\ ReadyMeansNewest

-----------------------------------------------------------------------------
LEMMA Numbers == /\ Requests \subseteq Nat /\ Makers \subseteq Nat
                 /\ Requests \subseteq Makers /\ 0 \in Makers
                 /\ \A r \in Requests : r # 0
                 /\ \A m \in Makers : m # 0 => m \in Requests
                 /\ None \notin Makers /\ None # 0
BY MaxRequestsAssumption, NoneAssumption DEF Requests, Makers

(* No request has been made in the beginning.                              *)
LEMMA InitIInv == FileInit => IInv
<1> SUFFICES ASSUME FileInit PROVE IInv
  OBVIOUS
<1> USE DEF FileInit
<1>1. FileTypeOK
  BY Numbers, MaxUnitsAssumption DEF FileTypeOK, Labels, Units
<1>2. Numbered /\ Promised
  BY Numbers DEF Numbered, Promised
<1>3. Staged /\ Ordered
  BY DEF Staged, Ordered
<1>4. OneRebuild /\ ReadyMeansNewest
  BY Numbers DEF OneRebuild, ReadyMeansNewest, Rebuilding, PreambleReady, ASTReady
<1> QED BY <1>1, <1>2, <1>3, <1>4 DEF IInv

(* The steps that only move continuations between places where nothing is  *)
(* expected of them: waking up, falling asleep, giving up, the end.        *)
LEMMA Moves ==
  ASSUME IInv,
         UNCHANGED <<requests, inProgress, promises, latest, diags>>,
         notifying' \in Units \cup {None},
         pc' \in [Requests -> Labels],
         \A r \in Requests : \/ pc'[r] = pc[r]
                             \/ pc[r] \in Pending /\ pc'[r] \in Pending
                             \/ /\ pc[r] \in Pending /\ ~Current(r)
                                /\ pc'[r] = "finished"
                             \/ pc[r] = "notify" /\ pc'[r] = "finished"
  PROVE  IInv'
<1> USE DEF requests, promises
<1>0. FileTypeOK
  BY DEF IInv
<1>1. FileTypeOK'
  BY <1>0 DEF FileTypeOK
<1>2. Numbered' /\ Promised'
  BY DEF IInv, Numbered, Promised, Pending
<1>3. Staged'
  <2> SUFFICES ASSUME NEW u \in Units, counter[u] # 0
               PROVE  /\ PreambleReady(u)' <=> pc'[counter[u]] \notin Pending \cup {"preamble"}
                      /\ ASTReady(u)' <=> pc'[counter[u]] \notin Pending \cup {"preamble", "ast"}
    BY DEF Staged
  <2>1. counter[u] \in Requests /\ Current(counter[u])
    BY <1>0, Numbers DEF IInv, Numbered, FileTypeOK, Current
  <2>2. PreambleReady(u)' = PreambleReady(u) /\ ASTReady(u)' = ASTReady(u)
    BY DEF PreambleReady, ASTReady
  <2> QED BY <2>1, <2>2 DEF IInv, Staged, Pending
<1>4. Ordered'
  <2> SUFFICES ASSUME NEW r \in Requests, pc'[r] \in {"preamble", "ast", "leave"},
                      ~Current(r)
               PROVE  pc'[counter[unit[r]]] \in Pending
    BY DEF Ordered, Current
  <2>1. pc'[r] = pc[r]
    BY DEF Pending
  <2>2. unit[r] \in Units /\ counter[unit[r]] \in Makers /\ made \in Makers
    BY <1>0 DEF FileTypeOK
  <2>3. r <= made
    BY <2>1, <2>2, Numbers DEF IInv, Numbered
  <2>4. counter[unit[r]] # 0
    BY <2>2, <2>3, Numbers DEF IInv, Numbered
  <2>5. counter[unit[r]] \in Requests /\ Current(counter[unit[r]])
    BY <2>2, <2>4, Numbers DEF IInv, Numbered, Current
  <2>6. pc[counter[unit[r]]] \in Pending
    BY <2>1 DEF IInv, Ordered
  <2> QED BY <2>5, <2>6 DEF Pending
<1>5. OneRebuild'
  <2>1. \A u \in Units : Rebuilding(u)' = Rebuilding(u)
    BY DEF Rebuilding, Pending
  <2> QED BY <2>1 DEF IInv, OneRebuild
<1>6. ReadyMeansNewest'
  BY DEF IInv, ReadyMeansNewest, PreambleReady, ASTReady
<1> QED BY <1>1, <1>2, <1>3, <1>4, <1>5, <1>6 DEF IInv

-----------------------------------------------------------------------------
(* The newest request of a unit.                                           *)
LEMMA Newest ==
  ASSUME IInv, NEW u \in Units, counter[u] # 0
  PROVE  /\ counter[u] \in Requests /\ unit[counter[u]] = u
         /\ counter[u] <= made /\ pc[counter[u]] # "unborn"
<1>1. counter[u] \in Requests /\ counter[u] <= made /\ unit[counter[u]] = u
  BY Numbers DEF IInv, FileTypeOK, Numbered
<1>2. made \in Nat /\ counter[u] \in Nat
  BY <1>1, Numbers DEF IInv, FileTypeOK
<1> QED BY <1>1, <1>2 DEF IInv, Numbered

(* A request that has been made has a unit with a newest request.          *)
LEMMA Made ==
  ASSUME IInv, NEW r \in Requests, pc[r] # "unborn"
  PROVE  /\ unit[r] \in Units /\ r <= made /\ counter[unit[r]] # 0
         /\ made \in Nat /\ r \in Nat
<1>1. unit[r] \in Units /\ made \in Nat /\ r \in Nat /\ r # 0
      /\ counter[unit[r]] \in Nat
  BY Numbers DEF IInv, FileTypeOK
<1>2. r <= made /\ r <= counter[unit[r]]
  BY <1>1 DEF IInv, Numbered
<1> QED BY <1>1, <1>2

(* No promise has a maker that was not made itself.                        *)
LEMMA Bounds ==
  ASSUME IInv, NEW u \in Units
  PROVE  /\ made \in Nat /\ preamble[u] \in Nat /\ ast[u] \in Nat
         /\ preamble[u] <= made /\ ast[u] <= made
<1>1. /\ made \in Nat /\ counter[u] \in Nat
      /\ preamble[u] \in Nat /\ ast[u] \in Nat
  BY Numbers DEF IInv, FileTypeOK
<1>2. counter[u] <= made /\ preamble[u] <= counter[u] /\ ast[u] <= counter[u]
  BY DEF IInv, Promised, Numbered
<1> QED BY <1>1, <1>2

(* Setting the promise of one unit's preamble makes that future ready, and *)
(* no other.                                                               *)
LEMMA SetPreamble ==
  ASSUME IInv, NEW r \in Requests, NEW u \in Units, ~PreambleReady(u),
         preamble' = preamble,
         preambleBy' = [preambleBy EXCEPT ![preamble[u]] = r]
  PROVE  /\ preambleBy' \in [Makers -> Makers \cup {None}]
         /\ preamble[u] \in Makers \ {0}
         /\ preambleBy'[preamble[u]] = r
         /\ \A v \in Units : v # u =>
              preambleBy'[preamble[v]] = preambleBy[preamble[v]]
<1>1. preamble[u] \in Makers /\ preambleBy \in [Makers -> Makers \cup {None}]
      /\ r \in Makers
  BY Numbers DEF IInv, FileTypeOK
<1>2. preamble[u] # 0
  BY Numbers DEF IInv, Promised, PreambleReady
<1>3. \A v \in Units : v # u => preamble[v] # preamble[u]
  BY <1>2 DEF IInv, Promised
<1>4. \A v \in Units : preamble[v] \in Makers
  BY DEF IInv, FileTypeOK
<1> QED BY <1>1, <1>2, <1>3, <1>4

(* Likewise for the AST.                                                   *)
LEMMA SetAST ==
  ASSUME IInv, NEW r \in Requests, NEW u \in Units, ~ASTReady(u),
         ast' = ast, astBy' = [astBy EXCEPT ![ast[u]] = r]
  PROVE  /\ astBy' \in [Makers -> Makers \cup {None}]
         /\ ast[u] \in Makers \ {0}
         /\ astBy'[ast[u]] = r
         /\ \A v \in Units : v # u => astBy'[ast[v]] = astBy[ast[v]]
<1>1. ast[u] \in Makers /\ astBy \in [Makers -> Makers \cup {None}]
      /\ r \in Makers
  BY Numbers DEF IInv, FileTypeOK
<1>2. ast[u] # 0
  BY Numbers DEF IInv, Promised, ASTReady
<1>3. \A v \in Units : v # u => ast[v] # ast[u]
  BY <1>2 DEF IInv, Promised
<1>4. \A v \in Units : ast[v] \in Makers
  BY DEF IInv, FileTypeOK
<1> QED BY <1>1, <1>2, <1>3, <1>4

-----------------------------------------------------------------------------
(* A rebuild begins: it is the newest request, and no other is under way.  *)
LEMMA EnterIInv == ASSUME IInv, NEW r \in Requests, Enter(r) PROVE IInv'
<1> USE DEF requests, promises
<1>1. /\ pc[r] = "waiting" /\ Current(r) /\ ~inProgress[unit[r]]
      /\ pc' = [pc EXCEPT ![r] = "preamble"]
      /\ inProgress' = [inProgress EXCEPT ![unit[r]] = TRUE]
      /\ UNCHANGED <<requests, promises, latest, diags, notifying>>
  BY DEF Enter, Goto, InProgress
<1>2. PICK u \in Units : u = unit[r] /\ counter[u] = r
  BY <1>1, Made DEF Current
<1>3. FileTypeOK'
  BY <1>1 DEF IInv, FileTypeOK, Labels
<1>4. Numbered' /\ Promised'
  BY <1>1 DEF IInv, FileTypeOK, Numbered, Promised
<1>5. \A v \in Units : v # u /\ counter[v] # 0 => counter[v] # r
  BY <1>2, Newest
<1>6. Staged'
  BY <1>1, <1>2, <1>5, Newest
     DEF IInv, FileTypeOK, Staged, Pending, PreambleReady, ASTReady
<1>7. Rebuilding(u) = {} /\ Rebuilding(u)' = {r}
  <2>1. Rebuilding(u) = {}
    BY <1>1, <1>2 DEF IInv, OneRebuild
  <2> QED BY <1>1, <1>2, <2>1 DEF Rebuilding, IInv, FileTypeOK
<1>8. OneRebuild'
  <2>1. \A v \in Units : v # u => /\ Rebuilding(v)' = Rebuilding(v)
                                  /\ inProgress'[v] = inProgress[v]
    BY <1>1, <1>2 DEF Rebuilding, IInv, FileTypeOK
  <2>2. inProgress'[u] = TRUE
    BY <1>1, <1>2 DEF IInv, FileTypeOK
  <2>3. ASSUME NEW v \in Units
        PROVE  /\ \A s, t \in Rebuilding(v)' : s = t
               /\ inProgress'[v] <=> Rebuilding(v)' # {}
    <3>1. CASE v = u
      BY <1>7, <2>2, <3>1
    <3>2. CASE v # u
      BY <2>1, <3>2 DEF IInv, OneRebuild
    <3> QED BY <3>1, <3>2
  <2> QED BY <2>3 DEF OneRebuild
<1>9. Ordered'
  <2> SUFFICES ASSUME NEW s \in Requests, ~Current(s)',
                      pc'[s] \in {"preamble", "ast", "leave"}
               PROVE  pc'[counter[unit[s]]] \in Pending
    BY <1>1 DEF Ordered
  <2>1. s # r /\ pc[s] = pc'[s] /\ ~Current(s)
    BY <1>1, <1>2 DEF IInv, FileTypeOK, Current
  <2>2. unit[s] \in Units /\ counter[unit[s]] # 0
    BY <2>1, Made
  <2>3. unit[s] # u
    BY <1>7, <1>2, <2>1 DEF Rebuilding
  <2>4. counter[unit[s]] \in Requests \ {r}
    BY <1>5, <2>2, <2>3, Newest
  <2> QED BY <1>1, <2>1, <2>4 DEF IInv, FileTypeOK, Ordered
<1>10. ReadyMeansNewest'
  BY <1>1 DEF IInv, ReadyMeansNewest, PreambleReady, ASTReady
<1> QED BY <1>3, <1>4, <1>6, <1>8, <1>9, <1>10 DEF IInv

(* A rebuild is over.                                                      *)
LEMMA LeaveIInv == ASSUME IInv, NEW r \in Requests, Leave(r) PROVE IInv'
<1> USE DEF requests, promises
<1>1. /\ pc[r] = "leave"
      /\ pc' = [pc EXCEPT ![r] = "notify"]
      /\ inProgress' = [inProgress EXCEPT ![unit[r]] = FALSE]
      /\ UNCHANGED <<requests, promises, latest, diags, notifying>>
  BY DEF Leave, Goto
<1>2. PICK u \in Units : u = unit[r]
  BY <1>1, Made
<1>3. FileTypeOK'
  BY <1>1 DEF IInv, FileTypeOK, Labels
<1>4. Numbered' /\ Promised'
  BY <1>1 DEF IInv, FileTypeOK, Numbered, Promised
<1>5. Staged'
  BY <1>1, Newest
     DEF IInv, FileTypeOK, Staged, Pending, PreambleReady, ASTReady
<1>6. Rebuilding(u) = {r} /\ Rebuilding(u)' = {}
  <2>1. Rebuilding(u) = {r}
    BY <1>1, <1>2 DEF IInv, OneRebuild, Rebuilding
  <2> QED BY <1>1, <1>2, <2>1 DEF Rebuilding, IInv, FileTypeOK
<1>7. OneRebuild'
  <2>1. \A v \in Units : v # u => /\ Rebuilding(v)' = Rebuilding(v)
                                  /\ inProgress'[v] = inProgress[v]
    BY <1>1, <1>2 DEF Rebuilding, IInv, FileTypeOK
  <2>2. inProgress'[u] = FALSE
    BY <1>1, <1>2 DEF IInv, FileTypeOK
  <2>3. ASSUME NEW v \in Units
        PROVE  /\ \A s, t \in Rebuilding(v)' : s = t
               /\ inProgress'[v] <=> Rebuilding(v)' # {}
    <3>1. CASE v = u
      BY <1>6, <2>2, <3>1
    <3>2. CASE v # u
      BY <2>1, <3>2 DEF IInv, OneRebuild
    <3> QED BY <3>1, <3>2
  <2> QED BY <2>3 DEF OneRebuild
<1>8. Ordered'
  <2> SUFFICES ASSUME NEW s \in Requests, ~Current(s)',
                      pc'[s] \in {"preamble", "ast", "leave"}
               PROVE  pc'[counter[unit[s]]] \in Pending
    BY <1>1 DEF Ordered
  <2>1. s # r /\ pc[s] = pc'[s] /\ ~Current(s)
    BY <1>1 DEF IInv, FileTypeOK, Current
  <2>2. pc[counter[unit[s]]] \in Pending
    BY <2>1 DEF IInv, Ordered
  <2>3. counter[unit[s]] \in Requests \ {r}
    BY <1>1, <2>1, <2>2, Made, Newest DEF Pending
  <2> QED BY <1>1, <2>2, <2>3 DEF IInv, FileTypeOK
<1>9. ReadyMeansNewest'
  BY <1>1 DEF IInv, ReadyMeansNewest, PreambleReady, ASTReady
<1> QED BY <1>3, <1>4, <1>5, <1>7, <1>8, <1>9 DEF IInv

(* A cancellation sets both promises of its unit.                          *)
LEMMA SetNullsIInv == ASSUME IInv, NEW r \in Requests, SetNulls(r) PROVE IInv'
<1> USE DEF requests
<1>1. /\ pc[r] = "waiting" /\ Current(r) /\ ~inProgress[unit[r]]
      /\ pc' = [pc EXCEPT ![r] = "finished"]
      /\ preambleBy' = [preambleBy EXCEPT ![preamble[unit[r]]] = r]
      /\ astBy' = [astBy EXCEPT ![ast[unit[r]]] = r]
      /\ UNCHANGED <<requests, inProgress, preamble, ast, latest, diags, notifying>>
  BY DEF SetNulls, Goto, InProgress
<1>2. PICK u \in Units : u = unit[r] /\ counter[u] = r
  BY <1>1, Made DEF Current
<1>3. ~PreambleReady(u) /\ ~ASTReady(u)
  BY <1>1, <1>2, Numbers DEF IInv, Staged, Pending
<1>4. /\ preambleBy' \in [Makers -> Makers \cup {None}]
      /\ preamble[u] \in Makers \ {0} /\ preambleBy'[preamble[u]] = r
      /\ \A v \in Units : v # u => preambleBy'[preamble[v]] = preambleBy[preamble[v]]
  BY <1>1, <1>2, <1>3, SetPreamble
<1>5. /\ astBy' \in [Makers -> Makers \cup {None}]
      /\ ast[u] \in Makers \ {0} /\ astBy'[ast[u]] = r
      /\ \A v \in Units : v # u => astBy'[ast[v]] = astBy[ast[v]]
  BY <1>1, <1>2, <1>3, SetAST
<1>6. FileTypeOK'
  BY <1>1, <1>4, <1>5 DEF IInv, FileTypeOK, Labels
<1>7. Numbered'
  BY <1>1 DEF IInv, FileTypeOK, Numbered
<1>8. Promised'
  <2>1. \A m \in Makers : m > made => m # preamble[u] /\ m # ast[u]
    BY Bounds, Numbers
  <2> QED BY <1>1, <1>2, <1>4, <1>5, <2>1, Numbers DEF IInv, FileTypeOK, Promised
<1>9. Staged'
  <2>1. \A v \in Units : v # u /\ counter[v] # 0 => counter[v] \in Requests \ {r}
    BY <1>2, Newest
  <2> QED BY <1>1, <1>2, <1>4, <1>5, <2>1, Numbers
          DEF IInv, FileTypeOK, Staged, Pending, PreambleReady, ASTReady
<1>10. Rebuilding(u) = {}
  BY <1>1, <1>2 DEF IInv, OneRebuild
<1>11. OneRebuild'
  <2>1. \A v \in Units : Rebuilding(v)' = Rebuilding(v)
    BY <1>1 DEF Rebuilding, IInv, FileTypeOK
  <2> QED BY <1>1, <2>1 DEF IInv, OneRebuild
<1>12. Ordered'
  <2> SUFFICES ASSUME NEW s \in Requests, ~Current(s)',
                      pc'[s] \in {"preamble", "ast", "leave"}
               PROVE  pc'[counter[unit[s]]] \in Pending
    BY <1>1 DEF Ordered
  <2>1. s # r /\ pc[s] = pc'[s] /\ ~Current(s)
    BY <1>1 DEF IInv, FileTypeOK, Current
  <2>2. unit[s] \in Units \ {u} /\ counter[unit[s]] # 0
    BY <1>10, <2>1, Made DEF Rebuilding
  <2>3. counter[unit[s]] \in Requests \ {r}
    BY <1>2, <2>2, Newest
  <2> QED BY <1>1, <2>1, <2>3 DEF IInv, FileTypeOK, Ordered
<1>13. ReadyMeansNewest'
  BY <1>1, <1>2, <1>4, <1>5 DEF IInv, ReadyMeansNewest, PreambleReady, ASTReady
<1> QED BY <1>6, <1>7, <1>8, <1>9, <1>11, <1>12, <1>13 DEF IInv

(* A rebuild sets the promise of the preamble, unless it was cancelled.    *)
LEMMA PublishPreambleIInv ==
  ASSUME IInv, NEW r \in Requests, PublishPreamble(r) PROVE IInv'
<1> USE DEF requests
<1>1. /\ pc[r] = "preamble"
      /\ pc' = [pc EXCEPT ![r] = IF Current(r) THEN "ast" ELSE "leave"]
      /\ preambleBy' = IF Current(r)
                       THEN [preambleBy EXCEPT ![preamble[unit[r]]] = r]
                       ELSE preambleBy
      /\ UNCHANGED <<requests, inProgress, preamble, ast, astBy, diags, notifying>>
  BY DEF PublishPreamble, Goto
<1>2. PICK u \in Units : u = unit[r] /\ counter[u] # 0
  BY <1>1, Made
<1>3. latest' \in [Units -> Requests \cup {None}]
  BY DEF PublishPreamble, KeepPreamble, IInv, FileTypeOK
<1>4. Current(r) => /\ ~PreambleReady(u) /\ ~ASTReady(u)
                    /\ preambleBy' \in [Makers -> Makers \cup {None}]
                    /\ preamble[u] \in Makers \ {0}
                    /\ preambleBy'[preamble[u]] = r
                    /\ \A v \in Units : v # u =>
                         preambleBy'[preamble[v]] = preambleBy[preamble[v]]
  <2> SUFFICES ASSUME Current(r)
               PROVE  ~PreambleReady(u) /\ ~ASTReady(u)
    BY <1>1, <1>2, SetPreamble
  <2> QED BY <1>1, <1>2 DEF IInv, Staged, Current
<1>5. FileTypeOK'
  BY <1>1, <1>3, <1>4 DEF IInv, FileTypeOK, Labels
<1>6. Numbered'
  BY <1>1 DEF IInv, FileTypeOK, Numbered
<1>7. Promised'
  <2>1. \A m \in Makers : m > made => m # preamble[u]
    BY Bounds, Numbers
  <2> QED BY <1>1, <1>2, <1>4, <2>1, Numbers DEF IInv, FileTypeOK, Promised
<1>8. Staged'
  <2> SUFFICES ASSUME NEW v \in Units, counter[v] # 0
               PROVE  /\ PreambleReady(v)' <=>
                           pc'[counter[v]] \notin Pending \cup {"preamble"}
                      /\ ASTReady(v)' <=>
                           pc'[counter[v]] \notin Pending \cup {"preamble", "ast"}
    BY <1>1 DEF Staged
  <2>1. counter[v] \in Requests /\ unit[counter[v]] = v
    BY Newest
  <2>2. ASTReady(v)' = ASTReady(v)
    BY <1>1 DEF ASTReady
  <2>3. CASE v = u /\ Current(r)
    BY <1>1, <1>2, <1>4, <2>2, <2>3, Numbers
       DEF Current, PreambleReady, IInv, FileTypeOK, Pending
  <2>4. CASE v # u \/ ~Current(r)
    <3>1. counter[v] # r
      BY <1>2, <2>1, <2>4 DEF Current
    <3>2. pc'[counter[v]] = pc[counter[v]]
      BY <1>1, <2>1, <3>1 DEF IInv, FileTypeOK
    <3>3. PreambleReady(v)' = PreambleReady(v)
      BY <1>1, <1>2, <1>4, <2>4 DEF PreambleReady
    <3> QED BY <2>2, <3>2, <3>3 DEF IInv, Staged
  <2> QED BY <2>3, <2>4
<1>9. OneRebuild'
  <2>1. \A v \in Units : Rebuilding(v)' = Rebuilding(v)
    BY <1>1 DEF Rebuilding, IInv, FileTypeOK
  <2> QED BY <1>1, <2>1 DEF IInv, OneRebuild
<1>10. Ordered'
  <2> SUFFICES ASSUME NEW s \in Requests, ~Current(s)',
                      pc'[s] \in {"preamble", "ast", "leave"}
               PROVE  pc'[counter[unit[s]]] \in Pending
    BY <1>1 DEF Ordered
  <2>1. pc[s] \in {"preamble", "ast", "leave"} /\ ~Current(s)
    BY <1>1 DEF IInv, FileTypeOK, Current
  <2>2. pc[counter[unit[s]]] \in Pending
    BY <2>1 DEF IInv, Ordered
  <2>3. counter[unit[s]] \in Requests \ {r}
    BY <1>1, <2>1, <2>2, Made, Newest DEF Pending
  <2> QED BY <1>1, <2>2, <2>3 DEF IInv, FileTypeOK
<1>11. ReadyMeansNewest'
  BY <1>1, <1>2, <1>4
     DEF IInv, ReadyMeansNewest, PreambleReady, ASTReady, Current
<1> QED BY <1>5, <1>6, <1>7, <1>8, <1>9, <1>10, <1>11 DEF IInv

(* Likewise the promise of the AST.                                        *)
LEMMA PublishASTIInv ==
  ASSUME IInv, NEW r \in Requests, PublishAST(r) PROVE IInv'
<1> USE DEF requests
<1>1. /\ pc[r] = "ast"
      /\ pc' = [pc EXCEPT ![r] = "leave"]
      /\ astBy' = IF Current(r) THEN [astBy EXCEPT ![ast[unit[r]]] = r] ELSE astBy
      /\ diags' = diags \cup {r}
      /\ UNCHANGED <<requests, inProgress, preamble, ast, preambleBy, latest,
                     notifying>>
  BY DEF PublishAST, Goto
<1>2. PICK u \in Units : u = unit[r] /\ counter[u] # 0
  BY <1>1, Made
<1>4. Current(r) => /\ ~ASTReady(u)
                    /\ astBy' \in [Makers -> Makers \cup {None}]
                    /\ ast[u] \in Makers \ {0}
                    /\ astBy'[ast[u]] = r
                    /\ \A v \in Units : v # u => astBy'[ast[v]] = astBy[ast[v]]
  <2> SUFFICES ASSUME Current(r)
               PROVE  ~ASTReady(u)
    BY <1>1, <1>2, SetAST
  <2> QED BY <1>1, <1>2 DEF IInv, Staged, Current
<1>5. FileTypeOK'
  BY <1>1, <1>4 DEF IInv, FileTypeOK, Labels
<1>6. Numbered'
  BY <1>1 DEF IInv, FileTypeOK, Numbered
<1>7. Promised'
  <2>1. \A m \in Makers : m > made => m # ast[u]
    BY Bounds, Numbers
  <2> QED BY <1>1, <1>2, <1>4, <2>1, Numbers DEF IInv, FileTypeOK, Promised
<1>8. Staged'
  <2> SUFFICES ASSUME NEW v \in Units, counter[v] # 0
               PROVE  /\ PreambleReady(v)' <=>
                           pc'[counter[v]] \notin Pending \cup {"preamble"}
                      /\ ASTReady(v)' <=>
                           pc'[counter[v]] \notin Pending \cup {"preamble", "ast"}
    BY <1>1 DEF Staged
  <2>1. counter[v] \in Requests /\ unit[counter[v]] = v
    BY Newest
  <2>2. PreambleReady(v)' = PreambleReady(v)
    BY <1>1 DEF PreambleReady
  <2>3. CASE v = u /\ Current(r)
    <3>1. PreambleReady(v)
      BY <1>1, <1>2, <2>3 DEF IInv, Staged, Current, Pending
    <3> QED BY <1>1, <1>2, <1>4, <2>2, <2>3, <3>1, Numbers
            DEF Current, ASTReady, IInv, FileTypeOK, Pending
  <2>4. CASE v # u \/ ~Current(r)
    <3>1. counter[v] # r
      BY <1>2, <2>1, <2>4 DEF Current
    <3>2. pc'[counter[v]] = pc[counter[v]]
      BY <1>1, <2>1, <3>1 DEF IInv, FileTypeOK
    <3>3. ASTReady(v)' = ASTReady(v)
      BY <1>1, <1>2, <1>4, <2>4 DEF ASTReady
    <3> QED BY <2>2, <3>2, <3>3 DEF IInv, Staged
  <2> QED BY <2>3, <2>4
<1>9. OneRebuild'
  <2>1. \A v \in Units : Rebuilding(v)' = Rebuilding(v)
    BY <1>1 DEF Rebuilding, IInv, FileTypeOK
  <2> QED BY <1>1, <2>1 DEF IInv, OneRebuild
<1>10. Ordered'
  <2> SUFFICES ASSUME NEW s \in Requests, ~Current(s)',
                      pc'[s] \in {"preamble", "ast", "leave"}
               PROVE  pc'[counter[unit[s]]] \in Pending
    BY <1>1 DEF Ordered
  <2>1. pc[s] \in {"preamble", "ast", "leave"} /\ ~Current(s)
    BY <1>1 DEF IInv, FileTypeOK, Current
  <2>2. pc[counter[unit[s]]] \in Pending
    BY <2>1 DEF IInv, Ordered
  <2>3. counter[unit[s]] \in Requests \ {r}
    BY <1>1, <2>1, <2>2, Made, Newest DEF Pending
  <2> QED BY <1>1, <2>2, <2>3 DEF IInv, FileTypeOK
<1>11. ReadyMeansNewest'
  BY <1>1, <1>2, <1>4
     DEF IInv, ReadyMeansNewest, PreambleReady, ASTReady, Current
<1> QED BY <1>5, <1>6, <1>7, <1>8, <1>9, <1>10, <1>11 DEF IInv

(* A new request: it is the newest of its unit and its promises are fresh. *)
LEMMA DeferIInv ==
  ASSUME IInv, NEW u \in Units, NEW what \in {"rebuild", "cancel"}, Defer(u, what)
  PROVE  IInv'
<1>1. /\ made < MaxRequests /\ made' = made + 1
      /\ unit' = [unit EXCEPT ![made'] = u]
      /\ counter' = [counter EXCEPT ![u] = made']
      /\ kind' = [kind EXCEPT ![made'] = what]
      /\ preamble' = [preamble EXCEPT ![u] = IF PreambleReady(u) THEN made' ELSE @]
      /\ ast' = [ast EXCEPT ![u] = IF ASTReady(u) THEN made' ELSE @]
      /\ pc[made'] = "unborn" /\ pc' = [pc EXCEPT ![made'] = "deferred"]
      /\ notifying' = u
      /\ UNCHANGED <<inProgress, preambleBy, astBy, latest, diags>>
  BY DEF Defer, Goto
<1>2. PICK n \in Requests : n = made'
  BY <1>1, MaxRequestsAssumption DEF IInv, FileTypeOK, Makers, Requests
<1>3. /\ made \in Nat /\ n = made + 1
      /\ \A v \in Units : counter[v] \in Nat /\ counter[v] <= made /\ counter[v] # n
  <2>1. made \in Nat /\ n = made + 1
    BY <1>1, <1>2, Numbers DEF IInv, FileTypeOK
  <2>2. \A v \in Units : counter[v] \in Nat /\ counter[v] <= made
    BY Numbers DEF IInv, FileTypeOK, Numbered
  <2> QED BY <2>1, <2>2
<1>4. old' \in [Requests -> Requests \cup {None}]
  BY <1>1, <1>2 DEF Defer, IInv, FileTypeOK
<1>5. FileTypeOK'
  BY <1>1, <1>2, <1>4, Numbers DEF IInv, FileTypeOK, Labels
<1>6. Numbered'
  <2>1. ASSUME NEW r \in Requests
        PROVE  /\ pc'[r] = "unborn" <=> r > n
               /\ r <= n => r <= counter'[unit'[r]]
    <3>1. CASE r = n
      BY <1>1, <1>2, <1>3, <3>1 DEF IInv, FileTypeOK
    <3>2. CASE r # n
      <4>1. r \in Nat /\ unit[r] \in Units /\ (r <= n <=> r <= made)
        BY <1>3, <3>2, Numbers DEF IInv, FileTypeOK
      <4>2. pc'[r] = pc[r] /\ unit'[r] = unit[r]
        BY <1>1, <1>2, <3>2 DEF IInv, FileTypeOK
      <4>3. counter'[unit[r]] = IF unit[r] = u THEN n ELSE counter[unit[r]]
        BY <1>1, <1>2, <4>1 DEF IInv, FileTypeOK
      <4> QED BY <1>3, <4>1, <4>2, <4>3 DEF IInv, Numbered
    <3> QED BY <3>1, <3>2
  <2>2. ASSUME NEW v \in Units
        PROVE  /\ counter'[v] <= n
               /\ counter'[v] # 0 => unit'[counter'[v]] = v
    BY <1>1, <1>2, <1>3, Numbers DEF IInv, FileTypeOK, Numbered
  <2> QED BY <1>2, <2>1, <2>2 DEF Numbered
<1>7. preambleBy[n] = None /\ astBy[n] = None
  BY <1>3, Numbers DEF IInv, Promised
<1>8. Promised'
  <2>1. ASSUME NEW v \in Units
        PROVE  /\ preamble'[v] <= counter'[v] /\ ast'[v] <= counter'[v]
               /\ preamble'[v] # 0 => unit'[preamble'[v]] = v
               /\ ast'[v] # 0 => unit'[ast'[v]] = v
    <3>1. CASE v # u
      <4>1. preamble'[v] = preamble[v] /\ ast'[v] = ast[v] /\ counter'[v] = counter[v]
        BY <1>1, <3>1 DEF IInv, FileTypeOK
      <4>2. preamble[v] # n /\ ast[v] # n
        BY <1>3, Bounds
      <4> QED BY <1>1, <1>2, <4>1, <4>2, Numbers DEF IInv, FileTypeOK, Promised
    <3>2. CASE v = u
      <4>1. /\ counter'[u] = n
            /\ preamble'[u] = IF PreambleReady(u) THEN n ELSE preamble[u]
            /\ ast'[u] = IF ASTReady(u) THEN n ELSE ast[u]
        BY <1>1, <1>2 DEF IInv, FileTypeOK
      <4>2. preamble[u] < n /\ ast[u] < n
        BY <1>3, Bounds
      <4>3. unit'[n] = u
        BY <1>1, <1>2 DEF IInv, FileTypeOK
      <4>4. \A m \in Makers : m # 0 /\ m # n => unit'[m] = unit[m]
        BY <1>1, <1>2, Numbers DEF IInv, FileTypeOK
      <4>5. /\ preamble[u] \in Makers /\ ast[u] \in Makers /\ n \in Nat
            /\ preamble[u] \in Nat /\ ast[u] \in Nat
        BY Numbers DEF IInv, FileTypeOK
      <4>6. n # 0 /\ preamble[u] # n /\ ast[u] # n
        BY <4>2, <4>5, Numbers
      <4>7. /\ preamble[u] # 0 => unit[preamble[u]] = u
            /\ ast[u] # 0 => unit[ast[u]] = u
        BY DEF IInv, Promised
      <4>8. preamble'[u] <= n /\ (preamble'[u] # 0 => unit'[preamble'[u]] = u)
        <5>1. CASE PreambleReady(u)
          BY <4>1, <4>3, <4>5, <5>1
        <5>2. CASE ~PreambleReady(u)
          <6>1. preamble'[u] = preamble[u]
            BY <4>1, <5>2
          <6>2. preamble[u] # 0 => unit'[preamble[u]] = unit[preamble[u]]
            BY <4>4, <4>5, <4>6
          <6> QED BY <4>2, <4>5, <4>7, <6>1, <6>2
        <5> QED BY <5>1, <5>2
      <4>9. ast'[u] <= n /\ (ast'[u] # 0 => unit'[ast'[u]] = u)
        <5>1. CASE ASTReady(u)
          BY <4>1, <4>3, <4>5, <5>1
        <5>2. CASE ~ASTReady(u)
          <6>1. ast'[u] = ast[u]
            BY <4>1, <5>2
          <6>2. ast[u] # 0 => unit'[ast[u]] = unit[ast[u]]
            BY <4>4, <4>5, <4>6
          <6> QED BY <4>2, <4>5, <4>7, <6>1, <6>2
        <5> QED BY <5>1, <5>2
      <4> QED BY <3>2, <4>1, <4>8, <4>9
    <3> QED BY <3>1, <3>2
  <2>2. \A m \in Makers : m > n => m > made
    BY <1>3, Numbers
  <2> QED BY <1>1, <1>2, <2>1, <2>2 DEF IInv, Promised
<1>9. ASSUME NEW v \in Units
      PROVE  IF v = u THEN ~PreambleReady(v)' /\ ~ASTReady(v)'
             ELSE /\ PreambleReady(v)' = PreambleReady(v)
                  /\ ASTReady(v)' = ASTReady(v)
  BY <1>1, <1>2, <1>7 DEF PreambleReady, ASTReady, IInv, FileTypeOK
<1>10. Staged'
  <2> SUFFICES ASSUME NEW v \in Units, counter'[v] # 0
               PROVE  /\ PreambleReady(v)' <=>
                           pc'[counter'[v]] \notin Pending \cup {"preamble"}
                      /\ ASTReady(v)' <=>
                           pc'[counter'[v]] \notin Pending \cup {"preamble", "ast"}
    BY DEF Staged
  <2>1. CASE v = u
    <3>1. pc'[counter'[v]] = "deferred"
      BY <1>1, <1>2, <2>1 DEF IInv, FileTypeOK
    <3> QED BY <1>9, <2>1, <3>1 DEF Pending
  <2>2. CASE v # u
    <3>1. counter'[v] = counter[v] /\ counter[v] \in Requests
      BY <1>1, <2>2, Newest DEF IInv, FileTypeOK
    <3>2. pc'[counter'[v]] = pc[counter[v]]
      BY <1>1, <1>2, <1>3, <3>1 DEF IInv, FileTypeOK
    <3> QED BY <1>9, <2>2, <3>1, <3>2 DEF IInv, Staged
  <2> QED BY <2>1, <2>2
<1>11. ASSUME NEW s \in Requests, pc'[s] \in {"preamble", "ast", "leave"}
       PROVE  s # n /\ pc[s] = pc'[s] /\ unit'[s] = unit[s]
  BY <1>1, <1>2, <1>11 DEF IInv, FileTypeOK
<1>12. OneRebuild'
  <2>1. \A v \in Units : Rebuilding(v)' = Rebuilding(v)
    BY <1>1, <1>2, <1>11 DEF Rebuilding, IInv, FileTypeOK
  <2> QED BY <1>1, <2>1 DEF IInv, OneRebuild
<1>13. Ordered'
  <2> SUFFICES ASSUME NEW s \in Requests, ~Current(s)',
                      pc'[s] \in {"preamble", "ast", "leave"}
               PROVE  pc'[counter'[unit'[s]]] \in Pending
    BY DEF Ordered
  <2>1. s # n /\ pc[s] = pc'[s] /\ unit'[s] = unit[s] /\ unit[s] \in Units
    BY <1>11, Made
  <2>2. CASE unit[s] = u
    BY <1>1, <1>2, <2>1, <2>2 DEF IInv, FileTypeOK, Pending
  <2>3. CASE unit[s] # u
    <3>1. counter'[unit'[s]] = counter[unit[s]] /\ ~Current(s)
      BY <1>1, <2>1, <2>3 DEF IInv, FileTypeOK, Current
    <3>2. counter[unit[s]] \in Requests \ {n}
      BY <1>3, <2>1, Made, Newest
    <3> QED BY <1>1, <1>2, <2>1, <3>1, <3>2 DEF IInv, FileTypeOK, Ordered
  <2> QED BY <2>2, <2>3
<1>14. ReadyMeansNewest'
  BY <1>1, <1>9 DEF IInv, FileTypeOK, ReadyMeansNewest, PreambleReady, ASTReady
<1> QED BY <1>5, <1>6, <1>8, <1>10, <1>12, <1>13, <1>14 DEF IInv

-----------------------------------------------------------------------------
(* Every step keeps the invariant.                                         *)
LEMMA StepIInv == IInv /\ [FileNext]_fileVars => IInv'
<1> SUFFICES ASSUME IInv, [FileNext]_fileVars PROVE IInv'
  OBVIOUS
<1>1. CASE UNCHANGED fileVars
  BY <1>1, Moves DEF fileVars, requests, promises, IInv, FileTypeOK
<1>2. ASSUME NEW u \in Units, NEW what \in {"rebuild", "cancel"}, Defer(u, what)
      PROVE  IInv'
  BY <1>2, DeferIInv
<1>3. CASE NotifyDeferred
  BY <1>3, Moves DEF NotifyDeferred, Woken, Pending, Labels, IInv, FileTypeOK
<1>4. ASSUME NEW r \in Requests, Call(r) PROVE IInv'
  BY <1>4, Moves DEF Call, Goto, Pending, Labels, IInv, FileTypeOK
<1>5. ASSUME NEW r \in Requests, Sleep(r) PROVE IInv'
  BY <1>5, Moves DEF Sleep, Goto, Pending, Labels, IInv, FileTypeOK
<1>6. ASSUME NEW r \in Requests, GiveUp(r) PROVE IInv'
  BY <1>6, Moves DEF GiveUp, Goto, Pending, Labels, IInv, FileTypeOK
<1>7. ASSUME NEW r \in Requests, NotifyLeft(r) PROVE IInv'
  BY <1>7, Moves DEF NotifyLeft, Woken, Pending, Labels, IInv, FileTypeOK
<1> QED
  BY <1>1, <1>2, <1>3, <1>4, <1>5, <1>6, <1>7, EnterIInv, LeaveIInv,
     SetNullsIInv, PublishPreambleIInv, PublishASTIInv DEF FileNext, Continue

LEMMA AlwaysIInv == FileSpec => []IInv
BY InitIInv, StepIInv, PTL DEF FileSpec

(* One rebuild of a unit runs at a time, whatever is requested meanwhile,  *)
(* whichever threads run the continuations, and in whatever order.         *)
THEOREM RebuildsAlternate == FileSpec => []OneRebuild
<1>1. IInv => OneRebuild
  BY DEF IInv
<1> QED BY <1>1, AlwaysIInv, PTL

(* Whoever asks a future that is ready gets the newest request's result.   *)
THEOREM FuturesAreFresh == FileSpec => []ReadyMeansNewest
<1>1. IInv => ReadyMeansNewest
  BY DEF IInv
<1> QED BY <1>1, AlwaysIInv, PTL

(* No promise is set twice.                                                *)
THEOREM PromisesAreSetOnce == FileSpec => []SetOnce
<1>1. ASSUME IInv PROVE SetOnce
  <2> SUFFICES ASSUME NEW r \in Requests, Current(r), pc[r] # "unborn"
               PROVE  /\ pc[r] \in Pending \cup {"preamble"} => ~PreambleReady(unit[r])
                      /\ pc[r] \in Pending \cup {"preamble", "ast"} => ~ASTReady(unit[r])
    BY DEF SetOnce, Pending
  <2>1. unit[r] \in Units /\ counter[unit[r]] # 0
    BY <1>1, Made
  <2> QED BY <1>1, <2>1 DEF IInv, Staged, Current
<1> QED BY <1>1, AlwaysIInv, PTL

(* The assertions of RebuildGuard's destructor never fail.                 *)
THEOREM GuardNeverFails == FileSpec => []GuardAsserts
<1>1. ASSUME IInv PROVE GuardAsserts
  <2> SUFFICES ASSUME NEW r \in Requests, pc[r] = "leave"
               PROVE  /\ InProgress(r)
                      /\ Current(r) => ASTReady(unit[r]) /\ PreambleReady(unit[r])
                      /\ ~Current(r) => ~ASTReady(unit[r]) /\ ~PreambleReady(unit[r])
    BY DEF GuardAsserts
  <2>1. unit[r] \in Units /\ counter[unit[r]] # 0
    BY <1>1, Made
  <2>2. InProgress(r)
    BY <1>1, <2>1 DEF IInv, OneRebuild, Rebuilding, InProgress
  <2>3. CASE Current(r)
    BY <1>1, <2>1, <2>2, <2>3 DEF IInv, Staged, Current, Pending
  <2>4. CASE ~Current(r)
    <3>1. pc[counter[unit[r]]] \in Pending
      BY <1>1, <2>4 DEF IInv, Ordered
    <3> QED BY <1>1, <2>1, <2>2, <2>4, <3>1 DEF IInv, Staged
  <2> QED BY <2>3, <2>4
<1> QED BY <1>1, AlwaysIInv, PTL

-----------------------------------------------------------------------------
(* The server: what holds of every CppFile holds of those of the server.   *)

Asks == [op : {"rebuild", "cancel"}, unit : Units, version : Nat]

(* What the server has yet to defer is asked of a CppFile it has made, and *)
(* an open document has one.                                               *)
Asked == /\ todo \in Seq(Asks)
         /\ version \in Nat /\ files \in 0..MaxUnits
         /\ file \in Units \cup {None}
         /\ open = TRUE => file \in Units

LEMMA InitAsked == Init => Asked
BY MaxUnitsAssumption DEF Init, Asked

(* GetOrCreateFile and forceReparse make CppFiles within the bound.        *)
LEMMA NewFile ==
  ASSUME Asked, files < MaxUnits
  PROVE  files + 1 \in Units /\ files + 1 \in 0..MaxUnits
BY MaxUnitsAssumption DEF Asked, Units

(* The workers' sleep, and their notification, leave all else alone.       *)
Aside == UNCHANGED <<fileVars, callVars, versionOf, queue, job, lastReported,
                     reported>>

LEMMA StepsAside ==
  ASSUME NotifyWorkers \/ Wait \/ Return \/ WakeSpuriously \/ UNCHANGED vars
  PROVE  Aside
BY DEF NotifyWorkers, Wait, Return, WakeSpuriously, vars, serverVars, Aside

LEMMA NextIsOneOf ==
  ASSUME [Next]_vars
  PROVE  \/ AddDocument \/ ForceReparse \/ RemoveDocument \/ Destroy \/ DeferCall
         \/ Notify \/ AddToFront \/ Take \/ Aside
         \/ \E r \in Requests : Work(r)
BY StepsAside DEF Next, Serve, Finish, Loop

(* Every step keeps it so.                                                 *)
LEMMA StepAsked == Asked /\ [Next]_vars => Asked'
<1> SUFFICES ASSUME Asked, [Next]_vars PROVE Asked'
  OBVIOUS
<1>1. CASE UNCHANGED callVars
  BY <1>1 DEF callVars, Asked
<1>2. CASE AddDocument
  <2>1. file' \in Units /\ files' \in 0..MaxUnits
    BY <1>2, NewFile DEF AddDocument, GetOrCreateFile, Asked
  <2>2. Ask("rebuild", file', version') \in Asks
    BY <1>2, <2>1 DEF AddDocument, Ask, Asks, Asked
  <2> QED BY <1>2, <2>1, <2>2 DEF AddDocument, Asked
<1>3. CASE ForceReparse
  <2>1. file \in Units
    BY <1>3 DEF ForceReparse, Asked
  <2>2. \A u \in Units, op \in {"rebuild", "cancel"} : Ask(op, u, version) \in Asks
    BY DEF Ask, Asks, Asked
  <2>3. UNCHANGED <<version, open>>
    BY <1>3 DEF ForceReparse
  <2>4. CASE todo' = <<Ask("rebuild", file, version)>> /\ UNCHANGED <<file, files>>
    BY <2>1, <2>2, <2>3, <2>4 DEF Asked
  <2>5. CASE /\ files < MaxUnits /\ files' = files + 1 /\ file' = files'
             /\ todo' = <<Ask("cancel", file, version), Ask("rebuild", file', version)>>
    <3>1. file' \in Units /\ files' \in 0..MaxUnits
      BY <2>5, NewFile
    <3>2. todo' \in Seq(Asks)
      BY <2>1, <2>2, <2>5, <3>1
    <3> QED BY <2>3, <3>1, <3>2 DEF Asked
  <2> QED BY <1>3, <2>4, <2>5 DEF ForceReparse
<1>4. CASE RemoveDocument
  <2>1. Ask("cancel", file, version') \in Asks
    BY <1>4 DEF RemoveDocument, Ask, Asks, Asked
  <2> QED BY <1>4, <2>1 DEF RemoveDocument, Asked
<1>5. CASE Destroy
  BY <1>5 DEF Destroy, Asked
<1>6. CASE DeferCall
  BY <1>6 DEF DeferCall, Asked
<1>7. CASE Notify \/ AddToFront \/ Take \/ \E r \in Requests : Work(r)
  BY <1>1, <1>7 DEF Notify, AddToFront, Take, Work, StartJob, ContinueJob,
                    EndJob, Report, serverVars, callVars
<1>8. CASE Aside
  BY <1>1, <1>8 DEF Aside
<1> QED
  BY <1>2, <1>3, <1>4, <1>5, <1>6, <1>7, <1>8, NextIsOneOf

(* A step of the server is a step of one CppFile, or leaves all alone.     *)
LEMMA StepIsFileStep == Asked /\ [Next]_vars => [FileNext]_fileVars
<1> SUFFICES ASSUME Asked, [Next]_vars PROVE FileNext \/ UNCHANGED fileVars
  OBVIOUS
<1>1. CASE DeferCall
  <2>1. Head(todo) \in Asks
    BY <1>1 DEF DeferCall, Asked
  <2>2. Head(todo).unit \in Units /\ Head(todo).op \in {"rebuild", "cancel"}
    BY <2>1 DEF Asks
  <2> QED BY <1>1, <2>2 DEF DeferCall, FileNext
<1>2. CASE Notify
  BY <1>2 DEF Notify, FileNext
<1>3. CASE \E r \in Requests : Work(r)
  BY <1>3 DEF Work, StartJob, ContinueJob, EndJob, Report, FileNext
<1> QED
  BY <1>1, <1>2, <1>3, NextIsOneOf DEF AddDocument, ForceReparse,
     RemoveDocument, Destroy, AddToFront, Take, Aside

(* The server implements the protocol of its CppFiles.                     *)
THEOREM ServerKeepsProtocol == Spec => FileSpec
<1>1. Init => FileInit
  BY DEF Init
<1> QED
  BY <1>1, InitAsked, StepAsked, StepIsFileStep, PTL DEF Spec, FileSpec

(* Whatever is asked of the server, in whatever order its workers run the  *)
(* requests and however a document is reopened or recompiled: one rebuild  *)
(* of a CppFile runs at a time, futures that are ready are up to date, no  *)
(* promise is set twice and no assertion of RebuildGuard fails.            *)
THEOREM ServerRebuildsSafely ==
  Spec => [](OneRebuild /\ ReadyMeansNewest /\ SetOnce /\ GuardAsserts)
BY ServerKeepsProtocol, RebuildsAlternate, FuturesAreFresh, PromisesAreSetOnce,
   GuardNeverFails, PTL

-----------------------------------------------------------------------------
(* The server's own state: its types, and what becomes of the newest       *)
(* rebuild.                                                                *)

(* The versions in the server's hands are versions the document has had,   *)
(* and there are no more of them than requests.                            *)
Versioned ==
  /\ \A i \in 1..Len(todo) : todo[i].version <= version
  /\ version <= made + Len(todo) /\ made + Len(todo) <= MaxRequests
  /\ versionOf \in [Requests -> Nat]
  /\ \A r \in Requests : versionOf[r] <= version
  /\ lastReported \in Nat /\ lastReported <= version

Handled == /\ open \in BOOLEAN /\ done \in BOOLEAN
           /\ queue \in Seq(Requests)
           /\ job \in [Requests -> Jobs]
           /\ reported \in Requests \cup {None}

(* An open document's last request is a rebuild of its latest version: it  *)
(* is still to be deferred, or it was made last, its worker does not drop  *)
(* it and its continuation does not end without diagnostics.               *)
NewestReported ==
  /\ \A r \in Requests : r > made => job[r] = "none"
  /\ \A i \in 1..Len(queue) : queue[i] <= made
  /\ open /\ todo # <<>> => /\ todo[Len(todo)].op = "rebuild"
                             /\ todo[Len(todo)].version = version
  /\ open /\ todo = <<>> =>
       /\ made > 0 /\ kind[made] = "rebuild" /\ versionOf[made] = version
       /\ pc[made] \in {"leave", "notify", "finished"} => made \in diags
       /\ job[made] = "ended" => lastReported = version

(* No more workers sleep, or have returned, than there are.                *)
Staffed == /\ signal \in {"none", "one", "all"}
           /\ asleep \in 0..WorkerCount /\ left \in 0..WorkerCount

SInv == IInv /\ Asked /\ Versioned /\ Handled /\ Staffed /\ NewestReported

(* addDocument, forceReparse and removeDocument begin with nothing left to *)
(* defer and leave one or two requests, of the version they made.          *)
Called == /\ todo = <<>> /\ todo' \in Seq(Asks) /\ todo' # <<>>
          /\ version' \in {version, version + 1}
          /\ made + Len(todo') <= MaxRequests
          /\ \A i \in 1..Len(todo') : todo'[i].version = version'
          /\ open' \in BOOLEAN
          /\ open' => todo'[Len(todo')].op = "rebuild"
          /\ UNCHANGED <<fileVars, done, versionOf, queue, job, lastReported,
                         reported>>

LEMMA CallsDefer ==
  ASSUME SInv, AddDocument \/ ForceReparse \/ RemoveDocument
  PROVE  Called
<1> USE DEF CanCall, Idle, Ask
<1>0. made \in Nat /\ todo' \in Seq(Asks) /\ open \in BOOLEAN
  <2>1. Asked'
    BY StepAsked DEF SInv, Next, Serve
  <2> QED BY <2>1, Numbers DEF SInv, IInv, FileTypeOK, Handled, Asked
<1>1. ASSUME NEW u, NEW v, v = version',
             todo' = <<Ask("rebuild", u, v)>> \/ todo' = <<Ask("cancel", u, v)>>
      PROVE  /\ Len(todo') = 1 /\ todo' # <<>>
             /\ \A i \in 1..Len(todo') : todo'[i].version = v
             /\ todo' = <<Ask("rebuild", u, v)>> => todo'[1].op = "rebuild"
  BY <1>1
<1>2. CASE AddDocument
  BY <1>0, <1>1, <1>2 DEF AddDocument, Called
<1>3. CASE ForceReparse
  <2>1. /\ UNCHANGED <<fileVars, version, open, done, versionOf, queue, job,
                       lastReported, reported>>
        /\ open \in BOOLEAN /\ todo = <<>>
    BY <1>0, <1>3 DEF ForceReparse
  <2>2. CASE CanCall(1) /\ todo' = <<Ask("rebuild", file, version)>>
    BY <1>0, <1>1, <2>1, <2>2 DEF Called
  <2>3. CASE /\ CanCall(2)
             /\ todo' = <<Ask("cancel", file, version), Ask("rebuild", file', version)>>
    <3>1. Len(todo') = 2 /\ todo'[2].op = "rebuild" /\ todo' # <<>>
      BY <2>3
    <3>2. \A i \in 1..2 : todo'[i].version = version
      BY <2>3
    <3> QED BY <1>0, <2>1, <2>3, <3>1, <3>2 DEF Called
  <2> QED BY <1>3, <2>2, <2>3 DEF ForceReparse
<1>4. CASE RemoveDocument
  BY <1>0, <1>1, <1>4 DEF RemoveDocument, Called
<1> QED BY <1>2, <1>3, <1>4

(* The initial state.                                                      *)
LEMMA InitSInv == Init => SInv
<1> SUFFICES ASSUME Init PROVE SInv
  OBVIOUS
<1>1. IInv /\ Asked
  BY InitIInv, InitAsked DEF Init
<1>2. Versioned
  BY MaxRequestsAssumption DEF Init, FileInit, Versioned
<1>3. Handled
  <2>1. open \in BOOLEAN /\ done \in BOOLEAN /\ reported \in Requests \cup {None}
    BY DEF Init
  <2>2. queue \in Seq(Requests) /\ job \in [Requests -> Jobs]
    BY DEF Init, Jobs
  <2> QED BY <2>1, <2>2 DEF Handled
<1>4. NewestReported
  BY DEF Init, NewestReported
<1>5. Staffed
  BY WorkerCountAssumption DEF Init, Staffed
<1> QED BY <1>1, <1>2, <1>3, <1>4, <1>5 DEF SInv

(* A worker at the lock neither sleeps nor has returned.                   *)
LEMMA StepStaffed == Staffed /\ [Next]_vars => Staffed'
<1> SUFFICES ASSUME Staffed, [Next]_vars PROVE Staffed'
  OBVIOUS
<1> USE DEF Staffed
<1>1. Cardinality(Running) \in Nat
  <2>1. IsFiniteSet(Requests) /\ Running \subseteq Requests
    BY FS_Interval, MaxRequestsAssumption DEF Requests, Running
  <2> QED BY <2>1, FS_Subset, FS_CardinalityType
<1>2. AtLock => asleep + 1 \in 0..WorkerCount /\ left + 1 \in 0..WorkerCount
  BY <1>1, WorkerCountAssumption DEF AtLock
<1>3. asleep > 0 => asleep - 1 \in 0..WorkerCount
  BY WorkerCountAssumption
<1>4. CASE Wait \/ Return \/ WakeSpuriously
  BY <1>2, <1>3, <1>4 DEF Wait, Return, WakeSpuriously
<1>5. CASE NotifyWorkers
  BY <1>3, <1>5, WorkerCountAssumption DEF NotifyWorkers
<1>6. CASE AddToFront \/ Destroy
  BY <1>6 DEF AddToFront, Destroy
<1>7. CASE UNCHANGED workerVars
  BY <1>7 DEF workerVars
<1>8. ASSUME NEW r \in Requests, Work(r) PROVE Staffed'
  BY <1>7, <1>8 DEF Work, StartJob, ContinueJob, EndJob, Report, serverVars
<1> QED
  BY <1>4, <1>5, <1>6, <1>7, <1>8
     DEF Next, Serve, Finish, Loop, AddDocument, ForceReparse, RemoveDocument,
         DeferCall, Notify, Take, serverVars, vars

LEMMA CalledSInv ==
  ASSUME SInv, Called PROVE Versioned' /\ Handled' /\ NewestReported'
<1>0. UNCHANGED <<made, kind, pc, diags>>
  BY DEF Called, fileVars, requests
<1>1. /\ made \in Nat /\ version \in Nat /\ Len(todo) = 0
      /\ Len(todo') \in Nat /\ Len(todo') > 0
  BY Numbers DEF SInv, IInv, FileTypeOK, Asked, Called
<1>2. Versioned'
  BY <1>0, <1>1, MaxRequestsAssumption DEF SInv, Versioned, Called, Asks
<1>3. Handled'
  BY DEF SInv, Handled, Called
<1>4. NewestReported'
  BY <1>0, <1>1 DEF SInv, NewestReported, Called
<1> QED BY <1>2, <1>3, <1>4

(* The request that is deferred is the next one, its version that of the   *)
(* call it comes from.                                                     *)
LEMMA DeferSInv ==
  ASSUME SInv, DeferCall PROVE Versioned' /\ Handled' /\ NewestReported'
<1>0. /\ made \in Nat /\ version \in Nat /\ todo \in Seq(Asks) /\ todo # <<>>
      /\ todo' = Tail(todo) /\ Defer(Head(todo).unit, Head(todo).op)
      /\ UNCHANGED <<version, open, done, queue, job, lastReported, reported>>
  BY Numbers DEF SInv, IInv, FileTypeOK, Asked, DeferCall
<1>1. PICK q : q = Head(todo)
  OBVIOUS
<1>2. /\ q = todo[1] /\ q \in Asks
      /\ Len(todo) \in Nat /\ Len(todo) > 0 /\ Len(todo') = Len(todo) - 1
      /\ \A i \in 1..Len(todo') : todo'[i] = todo[i + 1]
  BY <1>0, <1>1
<1>3. PICK n \in Requests : n = made + 1 /\ n = made'
  BY <1>0, MaxRequestsAssumption DEF Defer, Requests
<1>4. /\ kind' = [kind EXCEPT ![n] = q.op] /\ pc' = [pc EXCEPT ![n] = "deferred"]
      /\ versionOf' = [versionOf EXCEPT ![n] = q.version] /\ diags' = diags
  BY <1>0, <1>1, <1>3 DEF Defer, Goto, DeferCall
<1>5. q.version \in Nat /\ q.version <= version
  BY <1>2 DEF SInv, Versioned, Asks
<1>6. Versioned'
  <2>1. \A i \in 1..Len(todo') : todo'[i].version <= version
    <3> SUFFICES ASSUME NEW i \in 1..Len(todo') PROVE todo'[i].version <= version
      OBVIOUS
    <3>1. i + 1 \in 1..Len(todo)
      BY <1>2
    <3> QED BY <1>2, <3>1 DEF SInv, Versioned
  <2>2. version <= n + Len(todo') /\ n + Len(todo') <= MaxRequests
    BY <1>0, <1>2, <1>3, MaxRequestsAssumption DEF SInv, Versioned
  <2>3. /\ versionOf' \in [Requests -> Nat]
        /\ \A r \in Requests : versionOf'[r] <= version
    BY <1>4, <1>5 DEF SInv, Versioned
  <2> QED BY <1>0, <1>3, <2>1, <2>2, <2>3 DEF SInv, Versioned
<1>7. Handled'
  BY <1>0 DEF SInv, Handled
<1>8. NewestReported'
  <2>1. \A r \in Requests : r > n => job[r] = "none"
    BY <1>0, <1>3, Numbers DEF SInv, NewestReported
  <2>2. job[n] = "none" /\ \A i \in 1..Len(queue') : queue'[i] <= n
    <3>1. job[n] = "none"
      BY <1>0, <1>3, Numbers DEF SInv, NewestReported
    <3>2. ASSUME NEW i \in 1..Len(queue) PROVE queue[i] <= n
      <4>1. queue[i] \in Requests
        BY DEF SInv, Handled
      <4>2. queue[i] \in Nat /\ queue[i] <= made
        BY <4>1, Numbers DEF SInv, NewestReported
      <4> QED BY <1>0, <1>3, <4>2
    <3> QED BY <1>0, <3>1, <3>2
  <2>3. CASE todo' # <<>>
    <3>1. todo'[Len(todo')] = todo[Len(todo)]
      BY <1>2, <2>3, <1>0
    <3> QED BY <1>0, <1>3, <2>1, <2>2, <2>3, <3>1 DEF SInv, NewestReported
  <2>4. CASE todo' = <<>>
    <3>1. q = todo[Len(todo)]
      <4>1. Len(todo') = 0
        BY <2>4
      <4>2. Len(todo) = 1
        BY <1>2, <4>1
      <4> QED BY <1>2, <4>2
    <3>2. open => q.op = "rebuild" /\ q.version = version
      BY <1>0, <3>1 DEF SInv, NewestReported
    <3>3. kind'[n] = q.op /\ versionOf'[n] = q.version /\ pc'[n] = "deferred"
      BY <1>4 DEF SInv, IInv, FileTypeOK, Versioned
    <3>4. n > 0
      BY Numbers, <1>3, <1>0
    <3> QED BY <1>0, <1>3, <2>1, <2>2, <2>4, <3>2, <3>3, <3>4 DEF NewestReported
  <2> QED BY <2>3, <2>4
<1> QED BY <1>6, <1>7, <1>8

(* Everything else leaves the server's calls and requests alone.           *)
Quietly == UNCHANGED <<version, open, done, todo, versionOf, made, kind>>

LEMMA StepsQuietly ==
  ASSUME \/ Notify \/ AddToFront \/ Take \/ Aside
         \/ \E r \in Requests : Work(r)
  PROVE  Quietly
BY DEF Notify, AddToFront, Take, Work, StartJob, ContinueJob, EndJob, Report,
       NotifyDeferred, Call, Continue, Sleep, GiveUp, Enter, SetNulls,
       PublishPreamble, PublishAST, Leave, NotifyLeft,
       Aside, serverVars, callVars, fileVars, requests, Quietly

(* The types of what the workers change.                                   *)
LEMMA WorkTypes ==
  ASSUME SInv, Notify \/ AddToFront \/ Take \/ Aside
               \/ \E r \in Requests : Work(r)
  PROVE  Versioned' /\ Handled'
<1>0. Quietly
  BY StepsQuietly
<1>1. version \in Nat /\ made \in Nat
  BY Numbers DEF SInv, Asked, IInv, FileTypeOK
<1>2. lastReported' \in Nat /\ lastReported' <= version
  <2>1. CASE \E r \in Requests : Report(r)
    BY <2>1 DEF Report, SInv, Versioned
  <2>2. CASE UNCHANGED lastReported
    BY <2>2 DEF SInv, Versioned
  <2> QED BY <2>1, <2>2 DEF Notify, AddToFront, Take, Work, StartJob,
             ContinueJob, EndJob, Aside, serverVars
<1>3. Versioned'
  BY <1>0, <1>2 DEF SInv, Versioned, Quietly
<1>4. reported' \in Requests \cup {None}
  BY DEF Notify, AddToFront, Take, Work, StartJob, ContinueJob, EndJob, Report,
         Aside, serverVars, SInv, Handled
<1>5. queue' \in Seq(Requests) /\ job' \in [Requests -> Jobs]
  <2>0. queue \in Seq(Requests) /\ job \in [Requests -> Jobs]
    BY DEF SInv, Handled
  <2>1. CASE AddToFront
    <3>1. made \in Requests
      BY <1>1, <2>1, Numbers DEF AddToFront, Deferred, SInv, IInv, FileTypeOK
    <3>2. <<made>> \in Seq(Requests)
      BY <3>1
    <3> QED BY <2>0, <2>1, <3>1, <3>2 DEF AddToFront, Jobs
  <2>2. CASE Take
    BY <2>0, <2>2 DEF Take, Jobs
  <2>3. ASSUME NEW r \in Requests, Work(r)
        PROVE  queue' \in Seq(Requests) /\ job' \in [Requests -> Jobs]
    <3>1. queue' = queue
      BY <2>3 DEF Work, StartJob, ContinueJob, EndJob, Report, serverVars
    <3>2. job' \in [Requests -> Jobs]
      BY <2>0, <2>3 DEF Work, StartJob, ContinueJob, EndJob, Report, Job, Jobs,
                        serverVars
    <3> QED BY <2>0, <3>1, <3>2
  <2>4. CASE Notify \/ Aside
    BY <2>0, <2>4 DEF Notify, Aside, serverVars
  <2> QED BY <2>1, <2>2, <2>3, <2>4
<1> QED BY <1>0, <1>3, <1>4, <1>5 DEF SInv, Handled, Quietly

(* No request is in the queue, or with a worker, before it is made.        *)
LEMMA WorkMade ==
  ASSUME SInv, Notify \/ AddToFront \/ Take \/ Aside
               \/ \E r \in Requests : Work(r)
  PROVE  /\ \A r \in Requests : r > made => job'[r] = "none"
         /\ \A i \in 1..Len(queue') : queue'[i] <= made
<1>0. /\ queue \in Seq(Requests) /\ job \in [Requests -> Jobs] /\ made \in Nat
      /\ \A i \in 1..Len(queue) : queue[i] <= made
      /\ \A r \in Requests : r > made => job[r] = "none"
  BY Numbers DEF SInv, Handled, NewestReported, IInv, FileTypeOK
<1>1. CASE AddToFront
  <2>1. queue' = <<made>> \o queue /\ job' = [job EXCEPT ![made] = "queued"]
    BY <1>1 DEF AddToFront
  <2>2. \A r \in Requests : r > made => job'[r] = "none"
    BY <1>0, <2>1, Numbers
  <2>3. ASSUME NEW i \in 1..Len(queue') PROVE queue'[i] <= made
    <3>1. i = 1 \/ i - 1 \in 1..Len(queue)
      BY <1>0, <2>1
    <3> QED BY <1>0, <2>1, <3>1
  <2> QED BY <2>2, <2>3
<1>2. CASE Take
  <2>1. /\ queue # <<>> /\ queue' = Tail(queue)
        /\ job' = [job EXCEPT ![Head(queue)] = "started"]
    BY <1>2 DEF Take
  <2>2. Head(queue) = queue[1] /\ 1 \in 1..Len(queue)
    BY <1>0, <2>1
  <2>3. Head(queue) \in Requests /\ Head(queue) <= made
    BY <1>0, <2>2
  <2>4. \A r \in Requests : r > made => job'[r] = "none"
    BY <1>0, <2>1, <2>3, Numbers
  <2>5. ASSUME NEW i \in 1..Len(queue') PROVE queue'[i] <= made
    <3>1. queue'[i] = queue[i + 1] /\ i + 1 \in 1..Len(queue)
      BY <1>0, <2>1
    <3> QED BY <1>0, <3>1
  <2> QED BY <2>4, <2>5
<1>3. ASSUME NEW s \in Requests, Work(s)
      PROVE  /\ \A r \in Requests : r > made => job'[r] = "none"
             /\ \A i \in 1..Len(queue') : queue'[i] <= made
  <2>1. queue' = queue
    BY <1>3 DEF Work, StartJob, ContinueJob, EndJob, Report, serverVars
  <2>2. \/ job' = job
        \/ job[s] # "none" /\ \E l \in Jobs : job' = [job EXCEPT ![s] = l]
    <3>1. CASE ContinueJob(s)
      BY <3>1 DEF ContinueJob, serverVars
    <3>2. CASE StartJob(s) \/ EndJob(s) \/ Report(s)
      BY <3>2 DEF StartJob, EndJob, Report, Job, Jobs
    <3> QED BY <1>3, <3>1, <3>2 DEF Work
  <2>3. \A r \in Requests : r > made => job'[r] = "none"
    BY <1>0, <2>2
  <2> QED BY <1>0, <2>1, <2>3
<1>4. CASE Notify \/ Aside
  BY <1>0, <1>4 DEF Notify, Aside, serverVars
<1> QED BY <1>1, <1>2, <1>3, <1>4

(* The continuation of the newest rebuild ends with diagnostics.           *)
LEMMA NewestHasDiagnostics ==
  ASSUME SInv, NEW n \in Requests, n = made, kind[n] = "rebuild",
         pc[n] \in {"leave", "notify", "finished"} => n \in diags,
         Notify \/ AddToFront \/ Take \/ Aside
           \/ \E r \in Requests : Work(r)
  PROVE  pc'[n] \in {"leave", "notify", "finished"} => n \in diags'
<1> USE DEF Work, Goto
<1>0. /\ pc \in [Requests -> Labels] /\ unit[n] \in Units /\ made \in Nat
      /\ counter[unit[n]] \in Nat /\ n \in Nat
  BY Numbers DEF SInv, IInv, FileTypeOK
<1>1. Current(n)
  BY <1>0 DEF SInv, IInv, Numbered, Current
<1>2. ASSUME NEW u, pc' = Woken(u), diags' = diags
      PROVE  pc'[n] \in {"leave", "notify", "finished"} => n \in diags'
  BY <1>2 DEF Woken
<1>3. CASE Notify
  BY <1>2, <1>3 DEF Notify, NotifyDeferred
<1>4. ASSUME NEW s \in Requests, ContinueJob(s), Continue(s)
      PROVE  pc'[n] \in {"leave", "notify", "finished"} => n \in diags'
  <2>1. CASE PublishAST(s)
    BY <1>0, <2>1 DEF PublishAST
  <2>2. CASE PublishPreamble(s)
    BY <1>0, <1>1, <2>2 DEF PublishPreamble
  <2>3. CASE SetNulls(s)
    BY <1>0, <2>3 DEF SetNulls
  <2>4. CASE GiveUp(s)
    BY <1>0, <1>1, <2>4 DEF GiveUp
  <2>5. CASE Sleep(s) \/ Enter(s) \/ Leave(s)
    BY <1>0, <2>5 DEF Sleep, Enter, Leave
  <2>6. CASE NotifyLeft(s)
    BY <1>0, <2>6 DEF NotifyLeft, Woken
  <2> QED BY <1>4, <2>1, <2>2, <2>3, <2>4, <2>5, <2>6 DEF Continue
<1>5. ASSUME NEW s \in Requests, StartJob(s)
      PROVE  pc'[n] \in {"leave", "notify", "finished"} => n \in diags'
  BY <1>0, <1>5 DEF StartJob, Call, fileVars
<1>6. CASE \/ AddToFront \/ Take \/ Aside
           \/ \E s \in Requests : EndJob(s) \/ Report(s)
  BY <1>6 DEF AddToFront, Take, Aside, EndJob, Report, fileVars
<1> QED BY <1>3, <1>4, <1>5, <1>6 DEF ContinueJob

(* When the newest rebuild has ended its version has been reported, and    *)
(* nothing older is reported after it.                                     *)
LEMMA NewestIsReported ==
  ASSUME SInv, NEW n \in Requests, kind[n] = "rebuild", versionOf[n] = version,
         pc[n] = "finished" => n \in diags,
         job[n] = "ended" => lastReported = version,
         Notify \/ AddToFront \/ Take \/ Aside
           \/ \E r \in Requests : Work(r)
  PROVE  job'[n] = "ended" => lastReported' = version
<1>0. /\ job \in [Requests -> Jobs] /\ queue \in Seq(Requests)
      /\ lastReported \in Nat /\ version \in Nat /\ lastReported <= version
      /\ \A r \in Requests : versionOf[r] \in Nat /\ versionOf[r] <= version
  BY DEF SInv, Handled, Versioned, Asked
<1>1. CASE AddToFront
  BY <1>0, <1>1 DEF AddToFront
<1>2. CASE Take
  BY <1>0, <1>2 DEF Take
<1>3. CASE Notify \/ Aside
  BY <1>3 DEF Notify, Aside, serverVars
<1>4. ASSUME NEW s \in Requests, StartJob(s)
      PROVE  job'[n] = "ended" => lastReported' = version
  BY <1>0, <1>4 DEF StartJob, Job
<1>5. ASSUME NEW s \in Requests, ContinueJob(s)
      PROVE  job'[n] = "ended" => lastReported' = version
  BY <1>5 DEF ContinueJob, serverVars
<1>6. ASSUME NEW s \in Requests, EndJob(s)
      PROVE  job'[n] = "ended" => lastReported' = version
  BY <1>0, <1>6 DEF EndJob, Job
<1>7. ASSUME NEW s \in Requests, Report(s)
      PROVE  job'[n] = "ended" => lastReported' = version
  BY <1>0, <1>7 DEF Report, Job
<1> QED BY <1>1, <1>2, <1>3, <1>4, <1>5, <1>6, <1>7 DEF Work

(* Every step keeps the invariant.                                         *)
LEMMA StepSInv == SInv /\ [Next]_vars => SInv'
<1> SUFFICES ASSUME SInv, [Next]_vars PROVE SInv'
  OBVIOUS
<1>1. IInv' /\ Asked' /\ Staffed'
  BY StepIInv, StepAsked, StepIsFileStep, StepStaffed DEF SInv
<1>2. CASE AddDocument \/ ForceReparse \/ RemoveDocument
  BY <1>1, <1>2, CallsDefer, CalledSInv DEF SInv
<1>3. CASE DeferCall
  BY <1>1, <1>3, DeferSInv DEF SInv
<1>4. CASE Destroy
  <2>1. UNCHANGED <<fileVars, version, open, todo, versionOf, queue, job,
                    lastReported, reported>> /\ done' = TRUE
    BY <1>4 DEF Destroy
  <2>2. Versioned' /\ Handled' /\ NewestReported'
    BY <2>1 DEF SInv, Versioned, Handled, NewestReported, fileVars, requests
  <2> QED BY <1>1, <2>2 DEF SInv
<1>5. CASE Notify \/ AddToFront \/ Take \/ Aside
           \/ \E r \in Requests : Work(r)
  <2>1. Versioned' /\ Handled'
    BY <1>5, WorkTypes
  <2>2. NewestReported'
    <3>1. Quietly
      BY <1>5, StepsQuietly
    <3>2. /\ \A r \in Requests : r > made => job'[r] = "none"
          /\ \A i \in 1..Len(queue') : queue'[i] <= made
      BY <1>5, WorkMade
    <3>3. ASSUME open, todo = <<>>
          PROVE  /\ pc'[made] \in {"leave", "notify", "finished"} => made \in diags'
                 /\ job'[made] = "ended" => lastReported' = version
      <4>1. /\ made \in Requests /\ kind[made] = "rebuild"
            /\ versionOf[made] = version
            /\ pc[made] \in {"leave", "notify", "finished"} => made \in diags
            /\ job[made] = "ended" => lastReported = version
        BY <3>3, Numbers DEF SInv, NewestReported, IInv, FileTypeOK
      <4>2. pc'[made] \in {"leave", "notify", "finished"} => made \in diags'
        BY <1>5, <4>1, NewestHasDiagnostics
      <4>3. job'[made] = "ended" => lastReported' = version
        BY <1>5, <4>1, NewestIsReported
      <4> QED BY <4>2, <4>3
    <3> QED BY <3>1, <3>2, <3>3 DEF SInv, NewestReported, Quietly
  <2> QED BY <1>1, <2>1, <2>2 DEF SInv
<1> QED BY <1>2, <1>3, <1>4, <1>5, NextIsOneOf

LEMMA AlwaysSInv == Spec => []SInv
BY InitSInv, StepSInv, PTL DEF Spec

(* The types, and with them that the versions given, those reported and    *)
(* the CppFiles made stay within what the requests account for.            *)
THEOREM ServerTypes == Spec => []TypeOK
<1>1. ASSUME SInv PROVE TypeOK
  <2>1. FileTypeOK
    BY <1>1 DEF SInv, IInv
  <2>2. /\ version \in Nat /\ version <= MaxRequests /\ lastReported \in Nat
        /\ lastReported <= MaxRequests /\ made \in Nat
    BY <1>1, <2>1, Numbers, MaxRequestsAssumption
       DEF SInv, Versioned, Asked, FileTypeOK
  <2>3. version \in Versions /\ lastReported \in Versions
    BY <2>2, MaxRequestsAssumption DEF Versions
  <2>4. todo \in Seq(ToDo)
    <3>1. \A i \in 1..Len(todo) : todo[i] \in Asks /\ todo[i].version <= version
      BY <1>1 DEF SInv, Versioned, Asked
    <3>2. \A i \in 1..Len(todo) : todo[i].version \in Versions
      BY <2>2, <3>1, MaxRequestsAssumption DEF Versions, Asks
    <3>3. \A i \in 1..Len(todo) : todo[i] \in ToDo
      BY <3>1, <3>2 DEF Asks, ToDo
    <3> QED BY <1>1, <3>3 DEF SInv, Asked
  <2>5. versionOf \in [Requests -> Versions]
    BY <1>1, <2>2, MaxRequestsAssumption DEF SInv, Versioned, Versions
  <2> QED BY <1>1, <2>1, <2>3, <2>4, <2>5 DEF SInv, Asked, Handled, Staffed, TypeOK
<1> QED BY <1>1, AlwaysSInv, PTL

(* When all work is done, an open document has diagnostics of its latest   *)
(* version, whatever was dropped or cancelled on the way, in whatever      *)
(* order any number of workers ran the requests.                           *)
THEOREM LatestVersionIsReported == Spec => []DiagnosticsCatchUp
<1>1. ASSUME SInv PROVE DiagnosticsCatchUp
  <2> SUFFICES ASSUME Quiet, open PROVE lastReported = version
    BY DEF DiagnosticsCatchUp
  <2>1. made > 0 /\ (job[made] = "ended" => lastReported = version)
    BY <1>1 DEF SInv, NewestReported, Quiet, Idle
  <2>2. made \in Requests /\ job[made] # "none"
    BY <1>1, <2>1, Numbers DEF SInv, IInv, FileTypeOK, Quiet, Idle, Deferred
  <2> QED BY <2>1, <2>2 DEF Quiet
<1> QED BY <1>1, AlwaysSInv, PTL
=============================================================================
