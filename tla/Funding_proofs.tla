---------------------------- MODULE Funding_proofs ----------------------------
(***************************************************************************)
(* Theorems about Funding, for any set of workers and any bounds.          *)
(***************************************************************************)
EXTENDS Funding, TLAPS

(* The position of a purse in Wants of a worker, or of the key manager.    *)
Place(p) == IF p = "operating" THEN 1 ELSE IF p = "staking" THEN 2 ELSE 3

Waiting == {"asked", "receipt", "wait"}

(* Whether this run of c, or the next one, can still ask for p.            *)
Open(c, p) == \/ pc[c] = "down"
              \/ pc[c] = "balance" /\ Place(p) >= next[c]
              \/ pc[c] \in Waiting /\ Place(p) > next[c]

(* An asking client has a request on its way.                              *)
AskedAt(c) == pc[c] = "asked" => inflight[c][Purse(c)] > 0

(* What c has been paid and will be paid, and what it can still ask for,   *)
(* are at most one for each run.                                           *)
RunsAt(c, p) ==
  Transfers(c, p) + inflight[c][p] + (IF Open(c, p) THEN 1 ELSE 0)
    <= 1 + kills[c] + failures[c]

(* The coins before the ones c is after have arrived.                      *)
ArrivedAt(c, p) ==
  /\ Place(p) < next[c] => paid[c][p] > 0
  /\ pc[c] = "funded" /\ Place(p) <= next[c] => paid[c][p] > 0
  /\ pc[c] = "funded" => next[c] = Len(Wants(c))

(* Nothing is pending, and what is paid, on its way or yet to be asked for *)
(* is at most one for each kill and one more: coins are not asked for      *)
(* again once some have arrived.                                           *)
OnceAt(c, p) ==
  instamine =>
    /\ pending[c][p] = 0
    /\ inflight[c][p] + paid[c][p] + (IF Asking(c, p) \/ paid[c][p] > 0 THEN 0 ELSE 1)
         <= 1 + kills[c]

ClientInv(c) ==
  AskedAt(c) /\ \A p \in Purses : RunsAt(c, p) /\ ArrivedAt(c, p) /\ OnceAt(c, p)

Inv == TypeOK /\ \A c \in Clients : ClientInv(c)

(* A step leaves a client alone.                                           *)
Same(c) ==
  /\ instamine' = instamine
  /\ pc'[c] = pc[c] /\ next'[c] = next[c]
  /\ kills'[c] = kills[c] /\ failures'[c] = failures[c]
  /\ inflight'[c] = inflight[c] /\ pending'[c] = pending[c] /\ paid'[c] = paid[c]

-----------------------------------------------------------------------------
(* What the lists hold, in place of their DOMAINs. *)
LEMMA WantsPlaces ==
  ASSUME NEW c \in Clients, NEW i \in 1 .. 3, i <= Len(Wants(c))
  PROVE  /\ Wants(c)[i] \in Purses
         /\ Place(Wants(c)[i]) = i
         /\ Len(Wants(c)) \in 1 .. 3
         /\ DOMAIN Wants(c) = 1 .. Len(Wants(c))
         /\ \A p \in Purses : Place(p) = i => p = Wants(c)[i]
<1>1. CASE c = Km
  <2>1. Wants(c) = <<"operating">>
    BY <1>1 DEF Wants
  <2>2. Len(Wants(c)) = 1 /\ DOMAIN Wants(c) = 1 .. 1 /\ Wants(c)[1] = "operating"
    BY <2>1
  <2>3. i = 1
    BY <2>2
  <2> QED
    BY <2>2, <2>3 DEF Purses, Place
<1>2. CASE c # Km
  <2>1. Wants(c) = <<"operating", "staking", "eng">>
    BY <1>2 DEF Wants
  <2>2. /\ Len(Wants(c)) = 3 /\ DOMAIN Wants(c) = 1 .. 3
        /\ Wants(c)[1] = "operating" /\ Wants(c)[2] = "staking" /\ Wants(c)[3] = "eng"
    BY <2>1
  <2>3. i = 1 \/ i = 2 \/ i = 3
    OBVIOUS
  <2> QED
    BY <2>2, <2>3 DEF Purses, Place
<1> QED
  BY <1>1, <1>2

(* The kind of coin a client is at, and its place in the order of asking.  *)
LEMMA PurseFacts ==
  ASSUME TypeOK, NEW c \in Clients
  PROVE  /\ Purse(c) \in Purses
         /\ Place(Purse(c)) = next[c]
         /\ Len(Wants(c)) \in 1 .. 3
         /\ \A p \in Purses : Place(p) = next[c] => p = Purse(c)
<1>1. next[c] \in 1 .. 3 /\ next[c] <= Len(Wants(c))
  BY DEF TypeOK
<1> QED
  BY <1>1, WantsPlaces DEF Purse

(* One count changes, and no other.                                        *)
LEMMA CountChanges ==
  ASSUME NEW f \in Counts, NEW g, NEW c \in Clients, NEW q \in Purses, NEW k \in Nat,
         g = [f EXCEPT ![c][q] = k]
  PROVE  /\ g \in Counts /\ g[c][q] = k
         /\ \A d \in Clients, p \in Purses : d # c \/ p # q => g[d][p] = f[d][p]
BY DEF Counts

(* Every count is a natural number.                                        *)
LEMMA CountsAreNat ==
  ASSUME TypeOK
  PROVE  /\ instamine \in BOOLEAN
         /\ inflight \in Counts /\ pending \in Counts /\ paid \in Counts
         /\ \A c \in Clients, p \in Purses :
              /\ inflight[c][p] \in Nat /\ pending[c][p] \in Nat /\ paid[c][p] \in Nat
              /\ pc[c] \in {"down", "balance", "asked", "receipt", "wait", "funded", "ended"}
              /\ next[c] \in 1 .. 3 /\ kills[c] \in Nat /\ failures[c] \in Nat
BY FundingAssumption DEF TypeOK, Counts

(* Inv holds in the initial states.                                        *)
LEMMA InitInv == Init => Inv
<1> SUFFICES ASSUME Init PROVE Inv
  OBVIOUS
<1>1. \A c \in Clients :
        /\ pc[c] = "down" /\ next[c] = 1 /\ kills[c] = 0 /\ failures[c] = 0
        /\ \A p \in Purses : inflight[c][p] = 0 /\ pending[c][p] = 0 /\ paid[c][p] = 0
  BY DEF Init, None
<1>2. TypeOK
  <2>1. \A c \in Clients : 1 <= Len(Wants(c))
    BY WantsPlaces DEF Wants
  <2> QED
    BY <2>1, FundingAssumption DEF Init, None, TypeOK, Counts
<1>3. ASSUME NEW c \in Clients, NEW p \in Purses
      PROVE  RunsAt(c, p) /\ ArrivedAt(c, p) /\ OnceAt(c, p)
  <2>1. RunsAt(c, p)
    BY <1>1 DEF RunsAt, Transfers, Open
  <2>2. ArrivedAt(c, p)
    BY <1>1 DEF ArrivedAt, Place
  <2>3. OnceAt(c, p)
    BY <1>1 DEF OnceAt
  <2> QED
    BY <2>1, <2>2, <2>3
<1>4. ASSUME NEW c \in Clients PROVE AskedAt(c)
  BY <1>1 DEF AskedAt
<1> QED
  BY <1>2, <1>3, <1>4 DEF Inv, ClientInv

-----------------------------------------------------------------------------
(* The steps. *)

(* Leaving the coins c is after for the next ones.                         *)
LEMMA Advancing ==
  ASSUME TypeOK, NEW c \in Clients, Advance(c)
  PROVE  /\ \A d \in Clients : d # c => pc'[d] = pc[d] /\ next'[d] = next[d]
         /\ \/ next[c] = Len(Wants(c)) /\ pc'[c] = "funded" /\ next'[c] = next[c]
            \/ next[c] < Len(Wants(c)) /\ pc'[c] = "balance" /\ next'[c] = next[c] + 1
         /\ pc' \in [Clients -> {"down", "balance", "asked", "receipt", "wait", "funded", "ended"}]
         /\ next' \in [Clients -> 1 .. 3]
         /\ \A d \in Clients : next'[d] <= Len(Wants(d))
<1>1. /\ next \in [Clients -> 1 .. 3]
      /\ pc \in [Clients -> {"down", "balance", "asked", "receipt", "wait", "funded", "ended"}]
      /\ \A d \in Clients : next[d] <= Len(Wants(d))
  BY DEF TypeOK
<1>2. Len(Wants(c)) \in 1 .. 3
  BY PurseFacts
<1>3. CASE next[c] = Len(Wants(c))
  BY <1>1, <1>2, <1>3 DEF Advance, Goto
<1>4. CASE next[c] # Len(Wants(c))
  <2>1. next[c] < Len(Wants(c))
    BY <1>1, <1>2, <1>4
  <2>2. /\ pc' = [pc EXCEPT ![c] = "balance"] /\ next' = [next EXCEPT ![c] = next[c] + 1]
    BY <1>4 DEF Advance, Goto
  <2>3. /\ next[c] + 1 \in 1 .. 3
        /\ \A d \in Clients : next'[d] = IF d = c THEN next[c] + 1 ELSE next[d]
    <3>1. next[c] \in 1 .. 3
      BY <1>1
    <3>2. \A n \in 1 .. 3, m \in 1 .. 3 : m < n => m + 1 \in 1 .. 3
      OBVIOUS
    <3>3. next[c] + 1 \in 1 .. 3
      BY <1>2, <2>1, <3>1, <3>2
    <3>4. \A d \in Clients : next'[d] = IF d = c THEN next[c] + 1 ELSE next[d]
      BY <1>1, <2>2
    <3> QED
      BY <3>3, <3>4
  <2>4. next' \in [Clients -> 1 .. 3]
    BY <1>1, <2>2, <2>3
  <2>5. ASSUME NEW d \in Clients PROVE next'[d] <= Len(Wants(d))
    BY <1>1, <1>2, <2>1, <2>3
  <2>6. \A d \in Clients : pc'[d] = IF d = c THEN "balance" ELSE pc[d]
    BY <1>1, <2>2
  <2>7. pc' \in [Clients -> {"down", "balance", "asked", "receipt", "wait", "funded", "ended"}]
    BY <1>1, <2>2
  <2> QED
    BY <2>1, <2>3, <2>4, <2>5, <2>6, <2>7
<1> QED
  BY <1>3, <1>4

(* A step of one client is checked for that client.                        *)
LEMMA OneClient ==
  ASSUME Inv, NEW c \in Clients, TypeOK', ClientInv(c)',
         \A d \in Clients : d # c => Same(d)
  PROVE  Inv'
<1>1. ASSUME NEW d \in Clients, d # c PROVE ClientInv(d)'
  <2>1. Same(d) /\ ClientInv(d)
    BY <1>1 DEF Inv
  <2>2. Purse(d)' = Purse(d)
    BY <2>1 DEF Same, Purse
  <2>3. AskedAt(d)'
    BY <2>1, <2>2 DEF Same, ClientInv, AskedAt
  <2>4. ASSUME NEW p \in Purses PROVE RunsAt(d, p)' /\ ArrivedAt(d, p)' /\ OnceAt(d, p)'
    <3>1. RunsAt(d, p)'
      BY <2>1 DEF Same, ClientInv, RunsAt, Transfers, Open
    <3>2. ArrivedAt(d, p)'
      BY <2>1 DEF Same, ClientInv, ArrivedAt
    <3>3. OnceAt(d, p)'
      BY <2>1, <2>2 DEF Same, ClientInv, OnceAt, Asking
    <3> QED
      BY <3>1, <3>2, <3>3
  <2> QED
    BY <2>3, <2>4 DEF ClientInv
<1> QED
  BY <1>1 DEF Inv

(* A step that only moves pc[c], and may reset next[c] or count a kill or  *)
(* a failure, and does not begin to ask.                                   *)
Moves(c) ==
  /\ instamine' = instamine
  /\ UNCHANGED counts
  /\ \A d \in Clients : d # c => pc'[d] = pc[d] /\ next'[d] = next[d]
                              /\ kills'[d] = kills[d] /\ failures'[d] = failures[d]

(* A step of one client leaves the assertions of the others.               *)
LEMMA MovesOthers ==
  ASSUME NEW c \in Clients, Moves(c)
  PROVE  \A d \in Clients : d # c => Same(d)
BY DEF Moves, Same, counts

(* A client starts.                                                        *)
LEMMA StartStep ==
  ASSUME Inv, NEW c \in Clients, Start(c)
  PROVE  Inv'
<1>1. /\ TypeOK /\ ClientInv(c)
      /\ Purse(c) \in Purses /\ Place(Purse(c)) = next[c]
      /\ \A p \in Purses : Place(p) = next[c] => p = Purse(c)
  BY PurseFacts DEF Inv
<1>2. /\ instamine \in BOOLEAN
      /\ \A p \in Purses :
           /\ inflight[c][p] \in Nat /\ pending[c][p] \in Nat /\ paid[c][p] \in Nat
           /\ Place(p) \in 1 .. 3
      /\ next[c] \in 1 .. 3 /\ kills[c] \in Nat /\ failures[c] \in Nat
  BY <1>1, CountsAreNat DEF Place
<1>3. UNCHANGED counts /\ instamine' = instamine
  BY DEF Start, bounds
<1>4. pc[c] = "down" /\ pc'[c] = "balance" /\ next'[c] = 1
      /\ kills'[c] = kills[c] /\ failures'[c] = failures[c]
  BY <1>1, <1>2 DEF Start, bounds, Goto, TypeOK
<1>6. \A d \in Clients : d # c => Same(d)
  BY <1>1, <1>3 DEF Start, bounds, Goto, Same, counts, TypeOK, bounds
<1>7. TypeOK'
  <2>1. /\ next' \in [Clients -> 1 .. 3]
        /\ \A d \in Clients : next'[d] <= Len(Wants(d))
    <3>1. Len(Wants(c)) \in 1 .. 3
      BY <1>1, PurseFacts
    <3>2. \A d \in Clients : next'[d] = IF d = c THEN 1 ELSE next[d]
      BY <1>1 DEF Start, TypeOK
    <3>3. next' \in [Clients -> 1 .. 3]
      BY <1>1 DEF Start, TypeOK
    <3>4. ASSUME NEW d \in Clients PROVE next'[d] <= Len(Wants(d))
      <4>1. next[d] <= Len(Wants(d))
        BY <1>1 DEF TypeOK
      <4>2. CASE d = c
        <5>1. \A n \in 1 .. 3 : 1 <= n
          OBVIOUS
        <5>2. 1 <= Len(Wants(c)) /\ next'[c] = 1
          BY <3>1, <3>2, <5>1
        <5> QED
          BY <4>2, <5>2
      <4>3. CASE d # c
        BY <3>2, <4>1, <4>3
      <4> QED
        BY <4>2, <4>3
    <3> QED
      BY <3>3, <3>4
  <2> QED
    BY <1>1, <2>1, FundingAssumption DEF Start, Goto, TypeOK, counts, bounds
<1>8. AskedAt(c)'
  BY <1>1, <1>3, <1>4 DEF AskedAt, counts, ClientInv
<1>9. ASSUME NEW p \in Purses PROVE RunsAt(c, p)' /\ ArrivedAt(c, p)' /\ OnceAt(c, p)'
  <2>1. RunsAt(c, p) /\ ArrivedAt(c, p) /\ OnceAt(c, p)
    BY <1>1 DEF ClientInv
  <2>2. RunsAt(c, p)'
    BY <1>1, <1>2, <1>3, <1>4, <2>1 DEF RunsAt, Transfers, Open, Waiting, counts
  <2>3. ArrivedAt(c, p)'
    BY <1>1, <1>2, <1>3, <1>4, <2>1 DEF ArrivedAt, counts
  <2>4. OnceAt(c, p)'
    BY <1>1, <1>2, <1>3, <1>4, <2>1 DEF OnceAt, Asking, counts
  <2> QED
    BY <2>2, <2>3, <2>4
<1> QED
  BY <1>6, <1>7, <1>8, <1>9, OneClient DEF ClientInv


(* A client is killed.                                                     *)
LEMMA KillStep ==
  ASSUME Inv, NEW c \in Clients, Kill(c)
  PROVE  Inv'
<1>1. /\ TypeOK /\ ClientInv(c)
      /\ Purse(c) \in Purses /\ Place(Purse(c)) = next[c]
      /\ \A p \in Purses : Place(p) = next[c] => p = Purse(c)
  BY PurseFacts DEF Inv
<1>2. /\ instamine \in BOOLEAN
      /\ \A p \in Purses :
           /\ inflight[c][p] \in Nat /\ pending[c][p] \in Nat /\ paid[c][p] \in Nat
           /\ Place(p) \in 1 .. 3
      /\ next[c] \in 1 .. 3 /\ kills[c] \in Nat /\ failures[c] \in Nat
  BY <1>1, CountsAreNat DEF Place
<1>3. UNCHANGED counts /\ instamine' = instamine
  BY DEF Kill
<1>4. pc[c] # "down" /\ pc'[c] = "down" /\ next'[c] = next[c]
      /\ kills'[c] = kills[c] + 1 /\ failures'[c] = failures[c]
  BY <1>1, <1>2 DEF Kill, Goto, TypeOK
<1>6. \A d \in Clients : d # c => Same(d)
  BY <1>1, <1>3 DEF Kill, Goto, Same, counts, TypeOK, bounds
<1>7. TypeOK'
  BY <1>1, FundingAssumption DEF Kill, Goto, TypeOK, counts, bounds
<1>8. AskedAt(c)'
  BY <1>1, <1>3, <1>4 DEF AskedAt, counts, ClientInv
<1>9. ASSUME NEW p \in Purses PROVE RunsAt(c, p)' /\ ArrivedAt(c, p)' /\ OnceAt(c, p)'
  <2>1. RunsAt(c, p) /\ ArrivedAt(c, p) /\ OnceAt(c, p)
    BY <1>1 DEF ClientInv
  <2>2. RunsAt(c, p)'
    BY <1>1, <1>2, <1>3, <1>4, <2>1 DEF RunsAt, Transfers, Open, Waiting, counts
  <2>3. ArrivedAt(c, p)'
    BY <1>1, <1>2, <1>3, <1>4, <2>1 DEF ArrivedAt, counts
  <2>4. OnceAt(c, p)'
    BY <1>1, <1>2, <1>3, <1>4, <2>1 DEF OnceAt, Asking, counts
  <2> QED
    BY <2>2, <2>3, <2>4
<1> QED
  BY <1>6, <1>7, <1>8, <1>9, OneClient DEF ClientInv


(* A transfer of tokens is answered.                                       *)
LEMMA ReceiptStep ==
  ASSUME Inv, NEW c \in Clients, Receipt(c)
  PROVE  Inv'
<1>1. /\ TypeOK /\ ClientInv(c)
      /\ Purse(c) \in Purses /\ Place(Purse(c)) = next[c]
      /\ \A p \in Purses : Place(p) = next[c] => p = Purse(c)
  BY PurseFacts DEF Inv
<1>2. /\ instamine \in BOOLEAN
      /\ \A p \in Purses :
           /\ inflight[c][p] \in Nat /\ pending[c][p] \in Nat /\ paid[c][p] \in Nat
           /\ Place(p) \in 1 .. 3
      /\ next[c] \in 1 .. 3 /\ kills[c] \in Nat /\ failures[c] \in Nat
  BY <1>1, CountsAreNat DEF Place
<1>3. UNCHANGED counts /\ instamine' = instamine
  BY DEF Receipt, bounds
<1>4. pc[c] = "receipt" /\ pc'[c] = "wait" /\ next'[c] = next[c]
      /\ kills'[c] = kills[c] /\ failures'[c] = failures[c]
  BY <1>1, <1>2 DEF Receipt, bounds, Goto, TypeOK
<1>6. \A d \in Clients : d # c => Same(d)
  BY <1>1, <1>3 DEF Receipt, bounds, Goto, Same, counts, TypeOK, bounds
<1>7. TypeOK'
  BY <1>1, FundingAssumption DEF Receipt, bounds, Goto, TypeOK, counts, bounds
<1>8. AskedAt(c)'
  BY <1>1, <1>3, <1>4 DEF AskedAt, counts, ClientInv
<1>9. ASSUME NEW p \in Purses PROVE RunsAt(c, p)' /\ ArrivedAt(c, p)' /\ OnceAt(c, p)'
  <2>1. RunsAt(c, p) /\ ArrivedAt(c, p) /\ OnceAt(c, p)
    BY <1>1 DEF ClientInv
  <2>2. RunsAt(c, p)'
    BY <1>1, <1>2, <1>3, <1>4, <2>1 DEF RunsAt, Transfers, Open, Waiting, counts
  <2>3. ArrivedAt(c, p)'
    BY <1>1, <1>2, <1>3, <1>4, <2>1 DEF ArrivedAt, counts
  <2>4. OnceAt(c, p)'
    BY <1>1, <1>2, <1>3, <1>4, <2>1 DEF OnceAt, Asking, counts
  <2> QED
    BY <2>2, <2>3, <2>4
<1> QED
  BY <1>6, <1>7, <1>8, <1>9, OneClient DEF ClientInv


(* A client has the coins it was after.                                    *)
LEMMA AdvanceStep ==
  ASSUME Inv, NEW c \in Clients, pc[c] \in {"balance", "wait"}, Enough(c), Advance(c),
         UNCHANGED <<instamine, counts, bounds>>
  PROVE  Inv'
<1>1. /\ TypeOK /\ ClientInv(c)
      /\ Purse(c) \in Purses /\ Place(Purse(c)) = next[c]
      /\ \A p \in Purses : Place(p) = next[c] => p = Purse(c)
  BY PurseFacts DEF Inv
<1>2. /\ instamine \in BOOLEAN
      /\ \A p \in Purses :
           /\ inflight[c][p] \in Nat /\ pending[c][p] \in Nat /\ paid[c][p] \in Nat
           /\ Place(p) \in 1 .. 3
      /\ next[c] \in 1 .. 3 /\ kills[c] \in Nat /\ failures[c] \in Nat
  BY <1>1, CountsAreNat DEF Place
<1>3. UNCHANGED counts /\ instamine' = instamine /\ kills'[c] = kills[c] /\ failures'[c] = failures[c]
  BY DEF bounds
<1>4. /\ \A d \in Clients : d # c => pc'[d] = pc[d] /\ next'[d] = next[d]
      /\ \/ next[c] = Len(Wants(c)) /\ pc'[c] = "funded" /\ next'[c] = next[c]
         \/ next[c] < Len(Wants(c)) /\ pc'[c] = "balance" /\ next'[c] = next[c] + 1
  BY <1>1, Advancing
<1>5. paid[c][Purse(c)] > 0
  BY DEF Enough
<1>6. \A d \in Clients : d # c => Same(d)
  BY <1>3, <1>4 DEF Same, counts, bounds
<1>7. TypeOK'
  <2>1. /\ pc' \in [Clients -> {"down", "balance", "asked", "receipt", "wait", "funded", "ended"}]
        /\ next' \in [Clients -> 1 .. 3]
        /\ \A d \in Clients : next'[d] <= Len(Wants(d))
    BY <1>1, Advancing
  <2> QED
    BY <1>1, <2>1, FundingAssumption DEF TypeOK, counts, bounds
<1>8. AskedAt(c)'
  BY <1>4 DEF AskedAt
<1>9. ASSUME NEW p \in Purses PROVE RunsAt(c, p)' /\ ArrivedAt(c, p)' /\ OnceAt(c, p)'
  <2>1. RunsAt(c, p) /\ ArrivedAt(c, p) /\ OnceAt(c, p)
    BY <1>1 DEF ClientInv
  <2>2. RunsAt(c, p)'
    <3>1. Open(c, p)' => Open(c, p)
      <4>1. CASE pc'[c] = "funded"
        BY <4>1 DEF Open, Waiting
      <4>2. CASE pc'[c] = "balance" /\ next'[c] = next[c] + 1
        BY <1>2, <4>2 DEF Open, Waiting
      <4> QED
        BY <1>4, <4>1, <4>2
    <3> QED
      BY <1>2, <1>3, <2>1, <3>1 DEF RunsAt, Transfers, counts
  <2>3. ArrivedAt(c, p)'
    <3>1. Place(p) = next[c] => paid[c][p] > 0
      BY <1>1, <1>5
    <3> QED
      BY <1>2, <1>3, <1>4, <2>1, <3>1 DEF ArrivedAt, counts
  <2>4. OnceAt(c, p)'
    BY <1>1, <1>2, <1>3, <1>4, <2>1 DEF OnceAt, Asking, counts
  <2> QED
    BY <2>2, <2>3, <2>4
<1> QED
  BY <1>6, <1>7, <1>8, <1>9, OneClient DEF ClientInv


(* An error where no request is on its way.                                *)
LEMMA ErrorElsewhereStep ==
  ASSUME Inv, NEW c \in Clients, Error(c), pc[c] # "asked"
  PROVE  Inv'
<1>1. /\ TypeOK /\ ClientInv(c)
      /\ Purse(c) \in Purses /\ Place(Purse(c)) = next[c]
      /\ \A p \in Purses : Place(p) = next[c] => p = Purse(c)
  BY PurseFacts DEF Inv
<1>2. /\ instamine \in BOOLEAN
      /\ \A p \in Purses :
           /\ inflight[c][p] \in Nat /\ pending[c][p] \in Nat /\ paid[c][p] \in Nat
           /\ Place(p) \in 1 .. 3
      /\ next[c] \in 1 .. 3 /\ kills[c] \in Nat /\ failures[c] \in Nat
  BY <1>1, CountsAreNat DEF Place
<1>3. UNCHANGED counts /\ instamine' = instamine
  BY DEF Error
<1>4. pc[c] \in {"balance", "receipt", "wait"} /\ pc'[c] \in {"down", "ended"} /\ next'[c] = next[c]
      /\ kills'[c] = kills[c] /\ failures'[c] = failures[c] + 1
  BY <1>1, <1>2 DEF Error, Goto, TypeOK
<1>6. \A d \in Clients : d # c => Same(d)
  BY <1>1, <1>3 DEF Error, Goto, Same, counts, TypeOK, bounds
<1>7. TypeOK'
  BY <1>1, FundingAssumption DEF Error, Goto, TypeOK, counts, bounds
<1>8. AskedAt(c)'
  BY <1>1, <1>3, <1>4 DEF AskedAt, counts, ClientInv
<1>9. ASSUME NEW p \in Purses PROVE RunsAt(c, p)' /\ ArrivedAt(c, p)' /\ OnceAt(c, p)'
  <2>1. RunsAt(c, p) /\ ArrivedAt(c, p) /\ OnceAt(c, p)
    BY <1>1 DEF ClientInv
  <2>2. RunsAt(c, p)'
    BY <1>1, <1>2, <1>3, <1>4, <2>1 DEF RunsAt, Transfers, Open, Waiting, counts
  <2>3. ArrivedAt(c, p)'
    BY <1>1, <1>2, <1>3, <1>4, <2>1 DEF ArrivedAt, counts
  <2>4. OnceAt(c, p)'
    BY <1>1, <1>2, <1>3, <1>4, <2>1 DEF OnceAt, Asking, counts
  <2> QED
    BY <2>2, <2>3, <2>4
<1> QED
  BY <1>6, <1>7, <1>8, <1>9, OneClient DEF ClientInv


(* A request is served, or is an error, and is no longer on its way.       *)
LEMMA Served ==
  ASSUME TypeOK, NEW c \in Clients, NEW q \in Purses,
         inflight[c][q] > 0,
         inflight' = [inflight EXCEPT ![c][q] = @ - 1],
         \/ UNCHANGED <<pending, paid>>
         \/ instamine /\ paid' = [paid EXCEPT ![c][q] = @ + 1] /\ UNCHANGED pending
         \/ ~instamine /\ pending' = [pending EXCEPT ![c][q] = @ + 1] /\ UNCHANGED paid
  PROVE  /\ inflight' \in Counts /\ pending' \in Counts /\ paid' \in Counts
         /\ inflight'[c][q] = inflight[c][q] - 1
         /\ pending'[c][q] + paid'[c][q] <= pending[c][q] + paid[c][q] + 1
         /\ paid'[c][q] >= paid[c][q]
         /\ instamine => pending'[c][q] = pending[c][q]
         /\ \A p \in Purses : p # q => /\ inflight'[c][p] = inflight[c][p]
                                       /\ pending'[c][p] = pending[c][p]
                                       /\ paid'[c][p] = paid[c][p]
         /\ \A p \in Purses : /\ inflight'[c][p] \in Nat
                              /\ pending'[c][p] \in Nat /\ paid'[c][p] \in Nat
         /\ \A d \in Clients : d # c => /\ inflight'[d] = inflight[d]
                                        /\ pending'[d] = pending[d] /\ paid'[d] = paid[d]
<1>1. /\ inflight \in Counts /\ pending \in Counts /\ paid \in Counts
      /\ inflight[c][q] \in Nat /\ pending[c][q] \in Nat /\ paid[c][q] \in Nat
  BY CountsAreNat
<1>2. /\ inflight' \in Counts /\ inflight'[c][q] = inflight[c][q] - 1
      /\ \A d \in Clients, p \in Purses : d # c \/ p # q => inflight'[d][p] = inflight[d][p]
      /\ \A d \in Clients : d # c => inflight'[d] = inflight[d]
  <2>1. inflight[c][q] - 1 \in Nat /\ inflight' = [inflight EXCEPT ![c][q] = inflight[c][q] - 1]
    BY <1>1
  <2>2. \A d \in Clients : d # c => inflight'[d] = inflight[d]
    BY <1>1 DEF Counts
  <2>3. inflight'[c][q] = inflight[c][q] - 1
    BY <1>1, <2>1 DEF Counts
  <2>4. \A p \in Purses : p # q => inflight'[c][p] = inflight[c][p]
    BY <1>1, <2>1 DEF Counts
  <2>5. inflight' \in Counts
    BY <1>1, <2>1 DEF Counts
  <2> QED
    BY <2>2, <2>3, <2>4, <2>5
<1>3. ASSUME NEW f \in Counts PROVE \A p \in Purses : f[c][p] \in Nat
  BY DEF Counts
<1>4. /\ \A p \in Purses : inflight'[c][p] \in Nat
      /\ \A p \in Purses : pending[c][p] \in Nat
      /\ \A p \in Purses : paid[c][p] \in Nat
  BY <1>1, <1>2, <1>3
<1>5. CASE UNCHANGED <<pending, paid>>
  BY <1>1, <1>2, <1>4, <1>5
<1>6. CASE paid' = [paid EXCEPT ![c][q] = @ + 1] /\ UNCHANGED pending
  <2>1. paid'[c][q] = paid[c][q] + 1
    BY <1>1, <1>6 DEF Counts
  <2>2. \A p \in Purses : p # q => paid'[c][p] = paid[c][p]
    BY <1>1, <1>6 DEF Counts
  <2>3. paid' \in Counts
    BY <1>1, <1>6 DEF Counts
  <2>4. \A d \in Clients : d # c => paid'[d] = paid[d]
    BY <1>1, <1>6 DEF Counts
  <2>5. \A p \in Purses : paid'[c][p] \in Nat
    BY <1>3, <2>3
  <2> QED
    BY <1>1, <1>2, <1>4, <1>6, <2>1, <2>2, <2>3, <2>4, <2>5
<1>7. CASE ~instamine /\ pending' = [pending EXCEPT ![c][q] = @ + 1] /\ UNCHANGED paid
  <2>1. pending'[c][q] = pending[c][q] + 1
    BY <1>1, <1>7 DEF Counts
  <2>2. \A p \in Purses : p # q => pending'[c][p] = pending[c][p]
    BY <1>1, <1>7 DEF Counts
  <2>3. pending' \in Counts
    BY <1>1, <1>7 DEF Counts
  <2>4. \A d \in Clients : d # c => pending'[d] = pending[d]
    BY <1>1, <1>7 DEF Counts
  <2>5. \A p \in Purses : pending'[c][p] \in Nat
    BY <1>3, <2>3
  <2> QED
    BY <1>1, <1>2, <1>4, <1>7, <2>1, <2>2, <2>3, <2>4, <2>5
<1> QED
  BY <1>5, <1>6, <1>7


(* An error instead of an answer.                                          *)
LEMMA ErrorAskedStep ==
  ASSUME Inv, NEW c \in Clients, NEW q \in Purses, q = Purse(c),
         Error(c), pc[c] = "asked"
  PROVE  Inv'
<1>1. /\ TypeOK /\ ClientInv(c)
      /\ Purse(c) \in Purses /\ Place(Purse(c)) = next[c]
      /\ \A p \in Purses : Place(p) = next[c] => p = Purse(c)
  BY PurseFacts DEF Inv
<1>2. /\ instamine \in BOOLEAN
      /\ \A p \in Purses :
           /\ inflight[c][p] \in Nat /\ pending[c][p] \in Nat /\ paid[c][p] \in Nat
           /\ Place(p) \in 1 .. 3
      /\ next[c] \in 1 .. 3 /\ kills[c] \in Nat /\ failures[c] \in Nat
  BY <1>1, CountsAreNat DEF Place
<1>3. /\ instamine' = instamine /\ next'[c] = next[c] /\ Purse(c)' = Purse(c)
      /\ kills'[c] = kills[c] /\ failures'[c] = failures[c] + 1
      /\ pc'[c] \in {"down", "ended"}
  BY <1>1, <1>2 DEF Error, Goto, TypeOK, Purse
<1>4. /\ inflight[c][q] > 0
      /\ inflight' = [inflight EXCEPT ![c][q] = @ - 1]
      /\ \/ UNCHANGED <<pending, paid>>
         \/ instamine /\ paid' = [paid EXCEPT ![c][q] = @ + 1] /\ UNCHANGED pending
         \/ ~instamine /\ pending' = [pending EXCEPT ![c][q] = @ + 1] /\ UNCHANGED paid
  BY <1>1 DEF Error, Send, ClientInv, AskedAt
<1>5. /\ inflight' \in Counts /\ pending' \in Counts /\ paid' \in Counts
      /\ inflight'[c][q] = inflight[c][q] - 1
      /\ pending'[c][q] + paid'[c][q] <= pending[c][q] + paid[c][q] + 1
      /\ paid'[c][q] >= paid[c][q]
      /\ instamine => pending'[c][q] = pending[c][q]
      /\ \A p \in Purses : p # q => /\ inflight'[c][p] = inflight[c][p]
                                    /\ pending'[c][p] = pending[c][p]
                                    /\ paid'[c][p] = paid[c][p]
      /\ \A p \in Purses : /\ inflight'[c][p] \in Nat
                           /\ pending'[c][p] \in Nat /\ paid'[c][p] \in Nat
      /\ \A d \in Clients : d # c => /\ inflight'[d] = inflight[d]
                                     /\ pending'[d] = pending[d] /\ paid'[d] = paid[d]
  BY <1>1, <1>4, Served
<1>6. \A d \in Clients : d # c => Same(d)
  <2>1. \A d \in Clients : d # c => /\ instamine' = instamine /\ pc'[d] = pc[d] /\ next'[d] = next[d]
                                   /\ kills'[d] = kills[d] /\ failures'[d] = failures[d]
    BY <1>1 DEF Error, Goto, TypeOK
  <2> QED
    BY <1>5, <2>1 DEF Same
<1>7. TypeOK'
  <2>1. /\ UNCHANGED <<instamine, next, kills>>
        /\ pc' \in [Clients -> {"down", "balance", "asked", "receipt", "wait", "funded", "ended"}]
        /\ failures' \in [Clients -> 0 .. MaxFailures]
    BY <1>1, FundingAssumption DEF Error, Goto, TypeOK
  <2> QED
    BY <1>1, <1>5, <2>1 DEF TypeOK
<1>8. AskedAt(c)'
  BY <1>3 DEF AskedAt
<1>9. ASSUME NEW p \in Purses PROVE RunsAt(c, p)' /\ ArrivedAt(c, p)' /\ OnceAt(c, p)'
  <2>1. RunsAt(c, p) /\ ArrivedAt(c, p) /\ OnceAt(c, p)
    BY <1>1 DEF ClientInv
  <2>2. RunsAt(c, p)'
    BY <1>1, <1>2, <1>3, <1>5, <2>1 DEF RunsAt, Transfers, Open, Waiting
  <2>3. ArrivedAt(c, p)'
    <3>1. paid[c][p] > 0 => paid'[c][p] > 0
      BY <1>2, <1>5
    <3> QED
      BY <1>3, <2>1, <3>1 DEF ArrivedAt
  <2>4. OnceAt(c, p)'
    BY <1>1, <1>2, <1>3, <1>4, <1>5, <2>1 DEF OnceAt, Asking
  <2> QED
    BY <2>2, <2>3, <2>4
<1> QED
  BY <1>6, <1>7, <1>8, <1>9, OneClient DEF ClientInv


(* The faucet serves a request.                                            *)
LEMMA ServeStep ==
  ASSUME Inv, NEW c \in Clients, NEW q \in Purses, Serve(c, q)
  PROVE  Inv'
<1>1. /\ TypeOK /\ ClientInv(c)
      /\ Purse(c) \in Purses /\ Place(Purse(c)) = next[c]
      /\ \A p \in Purses : Place(p) = next[c] => p = Purse(c)
  BY PurseFacts DEF Inv
<1>2. /\ instamine \in BOOLEAN
      /\ \A p \in Purses :
           /\ inflight[c][p] \in Nat /\ pending[c][p] \in Nat /\ paid[c][p] \in Nat
           /\ Place(p) \in 1 .. 3
      /\ next[c] \in 1 .. 3 /\ kills[c] \in Nat /\ failures[c] \in Nat
  BY <1>1, CountsAreNat DEF Place
<1>3. /\ instamine' = instamine /\ next'[c] = next[c] /\ Purse(c)' = Purse(c)
      /\ kills'[c] = kills[c] /\ failures'[c] = failures[c]
      /\ \/ pc[c] = "asked" /\ Purse(c) = q /\ pc'[c] \in {"receipt", "wait"}
         \/ pc'[c] = pc[c] /\ (pc[c] = "asked" /\ Purse(c) = q => inflight[c][q] > 1)
  <2>1. /\ instamine' = instamine /\ next' = next
        /\ kills'[c] = kills[c] /\ failures'[c] = failures[c]
    BY DEF Serve, bounds
  <2>2. \/ pc[c] = "asked" /\ Purse(c) = q /\ pc'[c] \in {"receipt", "wait"}
        \/ pc'[c] = pc[c] /\ (pc[c] = "asked" /\ Purse(c) = q => inflight[c][q] > 1)
    BY <1>1 DEF Serve, Asking, Goto, TypeOK
  <2> QED
    BY <2>1, <2>2 DEF Purse
<1>4. /\ inflight[c][q] > 0
      /\ inflight' = [inflight EXCEPT ![c][q] = @ - 1]
      /\ \/ UNCHANGED <<pending, paid>>
         \/ instamine /\ paid' = [paid EXCEPT ![c][q] = @ + 1] /\ UNCHANGED pending
         \/ ~instamine /\ pending' = [pending EXCEPT ![c][q] = @ + 1] /\ UNCHANGED paid
  <2>1. CASE instamine
    BY <2>1 DEF Serve, Transfer
  <2>2. CASE ~instamine
    BY <2>2 DEF Serve, Transfer
  <2> QED
    BY <2>1, <2>2
<1>5. /\ inflight' \in Counts /\ pending' \in Counts /\ paid' \in Counts
      /\ inflight'[c][q] = inflight[c][q] - 1
      /\ pending'[c][q] + paid'[c][q] <= pending[c][q] + paid[c][q] + 1
      /\ paid'[c][q] >= paid[c][q]
      /\ instamine => pending'[c][q] = pending[c][q]
      /\ \A p \in Purses : p # q => /\ inflight'[c][p] = inflight[c][p]
                                    /\ pending'[c][p] = pending[c][p]
                                    /\ paid'[c][p] = paid[c][p]
      /\ \A p \in Purses : /\ inflight'[c][p] \in Nat
                           /\ pending'[c][p] \in Nat /\ paid'[c][p] \in Nat
      /\ \A d \in Clients : d # c => /\ inflight'[d] = inflight[d]
                                     /\ pending'[d] = pending[d] /\ paid'[d] = paid[d]
  BY <1>1, <1>4, Served
<1>6. \A d \in Clients : d # c => Same(d)
  <2>1. \A d \in Clients : d # c => /\ instamine' = instamine /\ pc'[d] = pc[d] /\ next'[d] = next[d]
                                   /\ kills'[d] = kills[d] /\ failures'[d] = failures[d]
    BY <1>1 DEF Serve, Goto, TypeOK, bounds
  <2> QED
    BY <1>5, <2>1 DEF Same
<1>7. TypeOK'
  <2>1. /\ UNCHANGED <<instamine, next, kills, failures>>
        /\ pc' \in [Clients -> {"down", "balance", "asked", "receipt", "wait", "funded", "ended"}]
    BY <1>1 DEF Serve, Goto, TypeOK, bounds
  <2> QED
    BY <1>1, <1>5, <2>1 DEF TypeOK
<1>8. AskedAt(c)'
  <2>1. CASE Purse(c) = q
    BY <1>1, <1>2, <1>3, <1>5, <2>1 DEF AskedAt, ClientInv
  <2>2. CASE Purse(c) # q
    BY <1>1, <1>3, <1>5, <2>2 DEF AskedAt, ClientInv
  <2> QED
    BY <2>1, <2>2
<1>9. ASSUME NEW p \in Purses PROVE RunsAt(c, p)' /\ ArrivedAt(c, p)' /\ OnceAt(c, p)'
  <2>1. RunsAt(c, p) /\ ArrivedAt(c, p) /\ OnceAt(c, p)
    BY <1>1 DEF ClientInv
  <2>2. RunsAt(c, p)'
    <3>1. Open(c, p)' => Open(c, p)
      BY <1>3 DEF Open, Waiting
    <3>2. CASE p = q
      BY <1>2, <1>3, <1>5, <2>1, <3>1, <3>2 DEF RunsAt, Transfers
    <3>3. CASE p # q
      BY <1>2, <1>3, <1>5, <2>1, <3>1, <3>3 DEF RunsAt, Transfers
    <3> QED
      BY <3>2, <3>3
  <2>3. ArrivedAt(c, p)'
    <3>1. paid[c][p] > 0 => paid'[c][p] > 0
      BY <1>2, <1>5
    <3> QED
      BY <1>3, <2>1, <3>1 DEF ArrivedAt
  <2>4. OnceAt(c, p)'
    BY <1>1, <1>2, <1>3, <1>4, <1>5, <2>1 DEF OnceAt, Asking
  <2> QED
    BY <2>2, <2>3, <2>4
<1> QED
  BY <1>6, <1>7, <1>8, <1>9, OneClient DEF ClientInv


(* A transfer is mined.                                                    *)
LEMMA MineStep ==
  ASSUME Inv, NEW c \in Clients, NEW q \in Purses, Mine(c, q)
  PROVE  Inv'
<1>1. /\ TypeOK /\ ClientInv(c)
      /\ Purse(c) \in Purses /\ Place(Purse(c)) = next[c]
      /\ \A p \in Purses : Place(p) = next[c] => p = Purse(c)
  BY PurseFacts DEF Inv
<1>2. /\ instamine \in BOOLEAN
      /\ \A p \in Purses :
           /\ inflight[c][p] \in Nat /\ pending[c][p] \in Nat /\ paid[c][p] \in Nat
           /\ Place(p) \in 1 .. 3
      /\ next[c] \in 1 .. 3 /\ kills[c] \in Nat /\ failures[c] \in Nat
  BY <1>1, CountsAreNat DEF Place
<1>3. UNCHANGED <<instamine, pc, next, inflight, kills, failures>> /\ Purse(c)' = Purse(c)
  BY DEF Mine, bounds, Purse
<1>4. /\ pending[c][q] > 0
      /\ pending' \in Counts /\ paid' \in Counts
      /\ pending'[c][q] = pending[c][q] - 1 /\ paid'[c][q] = paid[c][q] + 1
      /\ \A p \in Purses : p # q => pending'[c][p] = pending[c][p] /\ paid'[c][p] = paid[c][p]
      /\ \A d \in Clients : d # c => pending'[d] = pending[d] /\ paid'[d] = paid[d]
  <2>1. /\ pending \in Counts /\ paid \in Counts
        /\ pending[c][q] \in Nat /\ paid[c][q] \in Nat /\ pending[c][q] > 0
        /\ pending' = [pending EXCEPT ![c][q] = pending[c][q] - 1]
        /\ paid' = [paid EXCEPT ![c][q] = paid[c][q] + 1]
    BY <1>1, <1>2, CountsAreNat DEF Mine
  <2>2. /\ pending'[c][q] = pending[c][q] - 1 /\ paid'[c][q] = paid[c][q] + 1
    BY <2>1 DEF Counts
  <2>3. \A p \in Purses : p # q => pending'[c][p] = pending[c][p] /\ paid'[c][p] = paid[c][p]
    BY <2>1 DEF Counts
  <2>4. \A d \in Clients : d # c => pending'[d] = pending[d] /\ paid'[d] = paid[d]
    BY <2>1 DEF Counts
  <2>5. pending' \in Counts
    BY <2>1 DEF Counts
  <2>6. paid' \in Counts
    BY <2>1 DEF Counts
  <2> QED
    BY <2>1, <2>2, <2>3, <2>4, <2>5, <2>6
<1>5. \A p \in Purses : pending'[c][p] \in Nat /\ paid'[c][p] \in Nat
  BY <1>4 DEF Counts
<1>6. \A d \in Clients : d # c => Same(d)
  BY <1>3, <1>4 DEF Same
<1>7. TypeOK'
  BY <1>1, <1>3, <1>4 DEF TypeOK
<1>8. AskedAt(c)'
  BY <1>1, <1>3 DEF AskedAt, ClientInv
<1>9. ASSUME NEW p \in Purses PROVE RunsAt(c, p)' /\ ArrivedAt(c, p)' /\ OnceAt(c, p)'
  <2>1. RunsAt(c, p) /\ ArrivedAt(c, p) /\ OnceAt(c, p)
    BY <1>1 DEF ClientInv
  <2>2. RunsAt(c, p)'
    <3>1. Open(c, p)' = Open(c, p)
      BY <1>3 DEF Open
    <3>2. pending'[c][p] + paid'[c][p] = pending[c][p] + paid[c][p]
      BY <1>2, <1>4, <1>5
    <3> QED
      BY <1>2, <1>3, <1>5, <2>1, <3>1, <3>2 DEF RunsAt, Transfers
  <2>3. ArrivedAt(c, p)'
    <3>1. paid[c][p] > 0 => paid'[c][p] > 0
      BY <1>2, <1>4
    <3> QED
      BY <1>3, <2>1, <3>1 DEF ArrivedAt
  <2>4. OnceAt(c, p)'
    <3>1. OnceAt(c, q)
      BY <1>1 DEF ClientInv
    <3>2. CASE instamine
      BY <1>2, <1>4, <3>1, <3>2 DEF OnceAt
    <3>3. CASE ~instamine
      BY <1>3, <3>3 DEF OnceAt
    <3> QED
      BY <3>2, <3>3
  <2> QED
    BY <2>2, <2>3, <2>4
<1> QED
  BY <1>6, <1>7, <1>8, <1>9, OneClient DEF ClientInv


(* A client asks for coins.                                                *)
LEMMA AskStep ==
  ASSUME Inv, NEW c \in Clients, pc[c] = "balance", ~Enough(c), Send(inflight, c),
         Goto(c, "asked"), UNCHANGED <<next, instamine, pending, paid, bounds>>
  PROVE  Inv'
<1>1. /\ TypeOK /\ ClientInv(c)
      /\ Purse(c) \in Purses /\ Place(Purse(c)) = next[c]
      /\ \A p \in Purses : Place(p) = next[c] => p = Purse(c)
  BY PurseFacts DEF Inv
<1>2. /\ instamine \in BOOLEAN
      /\ \A p \in Purses :
           /\ inflight[c][p] \in Nat /\ pending[c][p] \in Nat /\ paid[c][p] \in Nat
           /\ Place(p) \in 1 .. 3
      /\ next[c] \in 1 .. 3 /\ kills[c] \in Nat /\ failures[c] \in Nat
  BY <1>1, CountsAreNat DEF Place
<1>3. /\ UNCHANGED <<instamine, next, pending, paid, kills, failures>> /\ Purse(c)' = Purse(c)
      /\ pc'[c] = "asked" /\ paid[c][Purse(c)] = 0
  BY <1>1, <1>2 DEF bounds, Purse, Goto, TypeOK, Enough
<1>4. /\ inflight' \in Counts
      /\ inflight'[c][Purse(c)] = inflight[c][Purse(c)] + 1
      /\ \A p \in Purses : p # Purse(c) => inflight'[c][p] = inflight[c][p]
      /\ \A d \in Clients : d # c => inflight'[d] = inflight[d]
  <2>1. inflight \in Counts /\ inflight' = [inflight EXCEPT ![c][Purse(c)] = inflight[c][Purse(c)] + 1]
    BY <1>1, CountsAreNat DEF Send
  <2>2. inflight[c][Purse(c)] \in Nat
    BY <1>1, <1>2
  <2>3. inflight' \in Counts
    BY <1>1, <2>1, <2>2 DEF Counts
  <2>4. inflight'[c][Purse(c)] = inflight[c][Purse(c)] + 1
    BY <1>1, <2>1, <2>2 DEF Counts
  <2>5. \A p \in Purses : p # Purse(c) => inflight'[c][p] = inflight[c][p]
    BY <1>1, <2>1 DEF Counts
  <2>6. \A d \in Clients : d # c => inflight'[d] = inflight[d]
    BY <2>1 DEF Counts
  <2> QED
    BY <2>3, <2>4, <2>5, <2>6
<1>6. \A d \in Clients : d # c => Same(d)
  <2>1. \A d \in Clients : d # c => pc'[d] = pc[d]
    BY <1>1 DEF Goto, TypeOK
  <2> QED
    BY <1>3, <1>4, <2>1 DEF Same
<1>7. TypeOK'
  <2>1. pc' \in [Clients -> {"down", "balance", "asked", "receipt", "wait", "funded", "ended"}]
    BY <1>1 DEF Goto, TypeOK
  <2> QED
    BY <1>1, <1>3, <1>4, <2>1 DEF TypeOK
<1>8. AskedAt(c)'
  BY <1>1, <1>2, <1>3, <1>4 DEF AskedAt
<1>9. ASSUME NEW p \in Purses PROVE RunsAt(c, p)' /\ ArrivedAt(c, p)' /\ OnceAt(c, p)'
  <2>1. RunsAt(c, p) /\ ArrivedAt(c, p) /\ OnceAt(c, p)
    BY <1>1 DEF ClientInv
  <2>2. RunsAt(c, p)'
    <3>1. CASE p = Purse(c)
      <4>1. Open(c, p) /\ ~Open(c, p)'
        BY <1>1, <1>2, <1>3, <3>1 DEF Open, Waiting
      <4> QED
        BY <1>1, <1>2, <1>3, <1>4, <2>1, <3>1, <4>1 DEF RunsAt, Transfers
    <3>2. CASE p # Purse(c)
      <4>1. Open(c, p)' => Open(c, p)
        BY <1>1, <1>2, <1>3, <3>2 DEF Open, Waiting
      <4> QED
        BY <1>1, <1>2, <1>3, <1>4, <2>1, <3>2, <4>1 DEF RunsAt, Transfers
    <3> QED
      BY <3>1, <3>2
  <2>3. ArrivedAt(c, p)'
    BY <1>3, <2>1 DEF ArrivedAt
  <2>4. OnceAt(c, p)'
    <3>1. CASE p = Purse(c)
      BY <1>1, <1>2, <1>3, <1>4, <2>1, <3>1 DEF OnceAt, Asking
    <3>2. CASE p # Purse(c)
      <4>1. pc[c] = "balance" => ~Asking(c, p)
        BY DEF Asking
      <4> QED
        BY <1>2, <1>3, <1>4, <2>1, <3>2, <4>1 DEF OnceAt
    <3> QED
      BY <3>1, <3>2
  <2> QED
    BY <2>2, <2>3, <2>4
<1> QED
  BY <1>6, <1>7, <1>8, <1>9, OneClient DEF ClientInv

-----------------------------------------------------------------------------
(* Every step keeps Inv.                                                   *)
LEMMA StepInv == Inv /\ [Next]_vars => Inv'
<1> SUFFICES ASSUME Inv, [Next]_vars PROVE Inv'
  OBVIOUS
<1>1. CASE UNCHANGED vars
  <2>1. /\ UNCHANGED <<instamine, pc, next, inflight, pending, paid, kills, failures>>
    BY <1>1 DEF vars, counts, bounds
  <2>2. TypeOK'
    BY <2>1 DEF Inv, TypeOK
  <2>3. ASSUME NEW c \in Clients PROVE ClientInv(c)'
    <3>1. ClientInv(c) /\ Purse(c)' = Purse(c)
      BY <2>1 DEF Inv, Purse
    <3>2. AskedAt(c)'
      BY <2>1, <3>1 DEF ClientInv, AskedAt
    <3>3. ASSUME NEW p \in Purses PROVE RunsAt(c, p)' /\ ArrivedAt(c, p)' /\ OnceAt(c, p)'
      BY <2>1, <3>1 DEF ClientInv, RunsAt, ArrivedAt, OnceAt, Open, Transfers, Asking
    <3> QED
      BY <3>2, <3>3 DEF ClientInv
  <2> QED
    BY <2>2, <2>3 DEF Inv
<1>2. ASSUME NEW c \in Clients, Start(c) PROVE Inv'
  BY <1>2, StartStep
<1>3. ASSUME NEW c \in Clients, ReadBalance(c) PROVE Inv'
  <2>1. CASE Enough(c)
    BY <1>3, <2>1, AdvanceStep DEF ReadBalance, counts
  <2>2. CASE ~Enough(c)
    BY <1>3, <2>2, AskStep DEF ReadBalance
  <2> QED
    BY <2>1, <2>2
<1>4. ASSUME NEW c \in Clients, CoinsArrived(c) PROVE Inv'
  BY <1>4, AdvanceStep DEF CoinsArrived
<1>5. ASSUME NEW c \in Clients, Error(c) PROVE Inv'
  <2>1. CASE pc[c] # "asked"
    BY <1>5, <2>1, ErrorElsewhereStep
  <2>2. CASE pc[c] = "asked"
    <3>1. Purse(c) \in Purses
      BY PurseFacts DEF Inv
    <3> QED
      BY <1>5, <2>2, <3>1, ErrorAskedStep
  <2> QED
    BY <2>1, <2>2
<1>6. ASSUME NEW c \in Clients, Kill(c) PROVE Inv'
  BY <1>6, KillStep
<1>7. ASSUME NEW c \in Clients, Receipt(c) PROVE Inv'
  BY <1>7, ReceiptStep
<1>8. ASSUME NEW c \in Clients, NEW q \in Purses, Serve(c, q) PROVE Inv'
  BY <1>8, ServeStep
<1>9. ASSUME NEW c \in Clients, NEW q \in Purses, Mine(c, q) PROVE Inv'
  BY <1>9, MineStep
<1> QED
  BY <1>1, <1>2, <1>3, <1>4, <1>5, <1>6, <1>7, <1>8, <1>9 DEF Next

(* Inv always holds.                                                       *)
LEMMA FundingInvariant == Spec => []Inv
BY InitInv, StepInv, PTL DEF Spec

(* Every client, counter and balance has its type in every behaviour of    *)
(* faucet_api.py and faucet_service.py.                                    *)
THEOREM TypeCorrect == Spec => []TypeOK
<1>1. Inv => TypeOK
  BY DEF Inv
<1> QED
  BY <1>1, FundingInvariant, PTL

(* get_initial_coins lets no client go on without the coins it waited for, *)
(* for any number of workers, kills and errors.                            *)
THEOREM Funded == Spec => []FundedHasCoins
<1>1. ASSUME Inv PROVE FundedHasCoins
  <2> SUFFICES ASSUME NEW c \in Clients, pc[c] = "funded", NEW i \in DOMAIN Wants(c)
               PROVE  paid[c][Wants(c)[i]] > 0
    BY DEF FundedHasCoins
  <2>1. TypeOK /\ ClientInv(c)
    BY <1>1 DEF Inv
  <2>2. next[c] \in 1 .. 3 /\ next[c] <= Len(Wants(c))
    BY <2>1 DEF TypeOK
  <2>3. Len(Wants(c)) \in 1 .. 3 /\ DOMAIN Wants(c) = 1 .. Len(Wants(c))
    BY <2>2, WantsPlaces
  <2>4. i \in 1 .. 3 /\ i <= Len(Wants(c))
    BY <2>3
  <2>5. Wants(c)[i] \in Purses /\ Place(Wants(c)[i]) = i
    BY <2>4, WantsPlaces
  <2>6. ArrivedAt(c, Wants(c)[i])
    BY <2>1, <2>5 DEF ClientInv
  <2> QED
    BY <2>4, <2>5, <2>6 DEF ArrivedAt
<1> QED
  BY <1>1, FundingInvariant, PTL

(* The faucet pays nobody more often than it was run, whatever requests    *)
(* and transfers killed clients have left behind; and where transfers are  *)
(* mined as they are sent no error makes it pay again, but only a kill.    *)
THEOREM PaidForRuns == Spec => []PaidPerRun
<1>1. ASSUME Inv PROVE PaidPerRun
  <2> SUFFICES ASSUME NEW c \in Clients, NEW p \in Purses
               PROVE  Transfers(c, p) + inflight[c][p]
                        <= 1 + kills[c] + (IF instamine THEN 0 ELSE failures[c])
    BY DEF PaidPerRun
  <2>1. RunsAt(c, p) /\ OnceAt(c, p)
    BY <1>1 DEF Inv, ClientInv
  <2>2. /\ inflight[c][p] \in Nat /\ pending[c][p] \in Nat /\ paid[c][p] \in Nat
        /\ kills[c] \in Nat /\ failures[c] \in Nat
    BY <1>1, CountsAreNat DEF Inv
  <2>3. Transfers(c, p) + inflight[c][p] <= 1 + kills[c] + failures[c]
    BY <2>1, <2>2 DEF RunsAt, Transfers
  <2>4. ASSUME instamine PROVE Transfers(c, p) + inflight[c][p] <= 1 + kills[c]
    BY <2>1, <2>2, <2>4 DEF OnceAt, Transfers
  <2> QED
    BY <2>2, <2>3, <2>4
<1> QED
  BY <1>1, FundingInvariant, PTL
=============================================================================
