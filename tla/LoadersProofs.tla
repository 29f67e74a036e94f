---------------------------- MODULE LoadersProofs ----------------------------
(***************************************************************************)
(* FileConfigLoader serves what the configuration file says, for any file    *)
(* contents and any number of writes, as long as each gets a newer time.    *)
(***************************************************************************)
EXTENDS Loaders, TLAPS

(* The provers, in this order: most leaves are about sets and functions, which *)
(* is what Zenon does, and the rest needs arithmetic.                          *)
USE ZenonT(3), SMTT(20), ZenonT(20)

\* The poller and the file; the clock is not behind any of them.
PollerShape ==
  /\ now \in Nat /\ newest \in Nat /\ fresh \in BOOLEAN
  /\ file = [content |-> file.content, mtime |-> file.mtime]
  /\ file.mtime \in Nat /\ file.mtime <= newest
  /\ cfgPoller = [phase |-> cfgPoller.phase, served |-> cfgPoller.served,
                  seen |-> cfgPoller.seen]
  /\ cfgPoller.seen \in Nat /\ cfgPoller.seen <= newest

PollerInv == PollerShape /\ ServedConfigIsCurrent

\* The later of two times.
LEMMA MaxOfTwo ==
  ASSUME NEW a \in Nat, NEW b \in Nat
  PROVE  /\ Max({a, b}) \in Nat /\ Max({a, b}) >= a /\ Max({a, b}) >= b
<1>1. \E x \in {a, b} : \A y \in {a, b} : x >= y
  BY a >= b \/ b >= a
<1>2. Max({a, b}) \in {a, b} /\ \A y \in {a, b} : Max({a, b}) >= y
  BY <1>1 DEF Max
<1> QED BY <1>2

\* A poller that has not read the file yet satisfies PollerInv.
LEMMA PollerInvInit == LoadersInit => PollerInv
BY ContentsAssumption
   DEF LoadersInit, PollerInv, PollerShape, ServedConfigIsCurrent, Parse

\* A change of the file is noticed by its time, if that is newer than any before.
LEMMA ChangeKeepsInv ==
  ASSUME PollerInv, NEW content, NEW mtime \in Nat, ChangeFile(content, mtime)
  PROVE  PollerInv'
<1>1. newest' \in Nat /\ newest' >= newest /\ newest' >= mtime
  BY MaxOfTwo DEF ChangeFile, PollerInv, PollerShape
<1>2. fresh' \in BOOLEAN /\ (fresh' => mtime > newest)
  BY DEF ChangeFile, PollerInv, PollerShape
<1>3. /\ file' = [content |-> content, mtime |-> mtime]
      /\ UNCHANGED <<now, cfgPoller>>
  BY DEF ChangeFile
<1>4. PollerShape'
  BY <1>1, <1>2, <1>3 DEF PollerInv, PollerShape
<1>5. ServedConfigIsCurrent'
  BY <1>2, <1>3 DEF PollerInv, PollerShape, ServedConfigIsCurrent
<1> QED BY <1>4, <1>5 DEF PollerInv

\* Every step of the pollers and of the writers keeps PollerInv.
LEMMA PollerInvNext == PollerInv /\ [LoadersNext]_loaderVars => PollerInv'
<1> SUFFICES ASSUME PollerInv, [LoadersNext]_loaderVars PROVE PollerInv'
  OBVIOUS
<1> USE DEF PollerInv, PollerShape
<1>1. ASSUME NEW c \in Contents, WriteFile(c) PROVE PollerInv'
  BY <1>1, ChangeKeepsInv DEF WriteFile
<1>2. CASE TruncateFile
  BY <1>2, ChangeKeepsInv DEF TruncateFile
<1>3. ASSUME NEW c \in Contents, NEW m \in 1 .. now, MoveFile(c, m) PROVE PollerInv'
  <2>1. m \in Nat /\ ChangeFile(c, m)
    BY <1>3 DEF MoveFile
  <2> QED BY <2>1, ChangeKeepsInv
<1>4. CASE RemoveFile
  BY <1>4 DEF RemoveFile, ServedConfigIsCurrent
<1>5. CASE LoadersTick
  BY <1>5 DEF LoadersTick, fileVars, ServedConfigIsCurrent
<1>6. CASE CheckFile
  <2>1. UNCHANGED <<now, file, newest, fresh>> /\ cfgPoller.phase = "idle"
    BY <1>6 DEF CheckFile, fileVars
  <2>2. CASE file.content = Absent
    <3>1. cfgPoller' = [phase |-> "idle", served |-> NoData, seen |-> 0]
      BY <1>6, <2>2 DEF CheckFile
    <3> QED BY <2>1, <2>2, <3>1 DEF ServedConfigIsCurrent
  <2>3. CASE cfgPoller' = cfgPoller
    BY <2>1, <2>3 DEF ServedConfigIsCurrent
  <2>4. CASE cfgPoller' = [cfgPoller EXCEPT !.phase = "read", !.seen = file.mtime]
    BY <2>1, <2>4 DEF ServedConfigIsCurrent
  <2> QED BY <1>6, <2>2, <2>3, <2>4 DEF CheckFile
<1>7. CASE ReadFile
  BY <1>7 DEF ReadFile, fileVars, ServedConfigIsCurrent
<1>8. CASE ReadConfig \/ RunFetchers \/ UNCHANGED loaderVars
  <2>1. UNCHANGED <<now, file, newest, fresh, cfgPoller>>
    BY <1>8, Zenon DEF ReadConfig, RunFetchers, loaderVars, fileVars
  <2> QED BY <2>1 DEF ServedConfigIsCurrent
<1> QED
  BY <1>1, <1>2, <1>3, <1>4, <1>5, <1>6, <1>7, <1>8 DEF LoadersNext

\* Whatever the file goes through, a poller that has seen its time serves its contents
\* (FileConfigLoader), if no change of the file hid behind an older time.
THEOREM PollerServesTheFile == LoadersSpec => []ServedConfigIsCurrent
<1>1. PollerInv => ServedConfigIsCurrent
  BY DEF PollerInv
<1> QED BY <1>1, PollerInvInit, PollerInvNext, PTL DEF LoadersSpec
=============================================================================
