------------------------- MODULE WalletSessionProofs -------------------------
(***************************************************************************)
(* Whose phrase a wallet's session holds, for any number of calls, phrases *)
(* and coins, whatever is locked, cleared or replaced during them.         *)
(*                                                                         *)
(* Two arguments.  One needs nothing: a call holds a phrase that is in use *)
(* (Good), or may write nothing, as what forgets a wallet bumps the        *)
(* revision.  The other holds while the session is Clean: a login is alone *)
(* among the calls that pages wait for, calls of Settings are only beside  *)
(* each other, and what such a call found when it began (Knows) is still   *)
(* true at each of its points.                                             *)
(***************************************************************************)
EXTENDS WalletSession, TLAPS

InSettings == {"change", "resave", "reveal"}

\* Where each kind of call can be.
PointsOf(name) ==
    CASE name = "unlock"   -> {"verify", "derive", "settle", "recall", "load"}
      [] name = "restore"  -> {"reset", "validate", "derive", "secret", "settle", "recall", "load"}
      [] name = "create"   -> {"reset", "generate"}
      [] name = "finalize" -> {"secret", "derive", "settle", "load"}
      [] name = "change"   -> {"verify", "derive", "decrypt", "secret"}
      [] name = "resave"   -> {"derive", "privacy"}
      [] name = "reveal"   -> {"decrypt"}
      [] name = "refresh"  -> {"privacy"}
      [] name = "retry"    -> {"timer", "derive"}
      [] name = "ensure"   -> {"ensure"}
      [] name = "snapshot" -> {"snapshot"}

\* What a call may hold while the phrases E are in use.
Good(c, E) ==
    /\ c.at \in PointsOf(c.name)
    /\ c.name \in Foreground \/ c.valid => c.phrase \in E
    /\ c.valid => \A x \in Coins : c.read[x] \in E

\* What a call that a page waits for knows of the session.
NoPhrase == cache = None /\ sessionMnemonic = None
Held(c) ==
    /\ c.phrase # None /\ meta = c.phrase /\ cache = c.phrase
    /\ c.at # "recall"
    /\ c.at = "load" => sessionMnemonic = c.phrase
Knows(c) ==
    /\ c.name = "unlock" =>
          /\ ~ isUnlocked /\ generatedSeed = None
          /\ c.phrase = meta /\ meta # None
          /\ IF c.at = "verify" THEN slips = {} => NoPhrase ELSE Held(c)
    /\ c.name = "restore" =>
          /\ ~ isUnlocked /\ generatedSeed = None /\ c.phrase # None
          /\ IF c.at \in {"settle", "recall", "load"} THEN Held(c) ELSE NoPhrase
    /\ c.name = "create" => ~ isUnlocked /\ generatedSeed = None /\ NoPhrase
    /\ c.name = "finalize" =>
          /\ ~ isUnlocked /\ generatedSeed # None /\ c.phrase = generatedSeed
          /\ c.at # "secret" => Held(c)
    /\ c.name \in InSettings => isUnlocked /\ c.phrase = meta

Clean == slips \cap {"overtaken", "unsaved"} = {}

Open == isUnlocked => /\ meta # None /\ cache = meta /\ sessionMnemonic = meta
                      /\ generatedSeed = None

Session ==
    Clean =>
      /\ \A s, t \in Waited : s = t \/ {calls[s].name, calls[t].name} \subseteq InSettings
      /\ \A s \in Waited : Knows(calls[s])
      /\ Open /\ LockForgets

\* The phrases in use.
Entered == OrNone(entered)
InUse ==
    /\ entered \subseteq Phrases
    /\ slips \subseteq Slips
    /\ isUnlocked \in BOOLEAN
    /\ meta \in Entered /\ cache \in Entered /\ pending \in Entered
    /\ sessionMnemonic \in Entered /\ generatedSeed \in Entered
    /\ addresses \in [Coins -> Entered]

CallsGood ==
    /\ calls \in [Slots -> OrNone(Call)]
    /\ \A s \in Active : Good(calls[s], Entered)

IInv == InUse /\ CallsGood /\ Session

USE SessionConstants, NoneIsNoCall DEF SessionConstants, OrNone

-----------------------------------------------------------------------------
(* Calls.                                                                   *)

LEMMA PointsAre == \A name \in Foreground \cup Background : PointsOf(name) \subseteq Points
  BY DEF Foreground, Background, PointsOf, Points

\* A call, told by what the session knows of it.
Is(c, name, at, phrase) ==
    c \in Call /\ c # None /\ c.name = name /\ c.at = at /\ c.phrase = phrase

LEMMA FreshIs ==
    ASSUME NEW name \in Foreground \cup Background, NEW at \in Points,
           NEW phrase \in OrNone(Phrases)
    PROVE  /\ Is(Fresh(name, at, phrase), name, at, phrase)
           /\ Fresh(name, at, phrase).valid = FALSE
           /\ Fresh(name, at, phrase).read = NoAddresses
<1>1. NoAddresses \in Addresses
  BY DEF NoAddresses, Addresses
<1>2. Fresh(name, at, phrase) \in Call
  BY <1>1 DEF Fresh, Call
<1>3. Fresh(name, at, phrase) # None
  BY <1>2
<1> QED BY <1>2, <1>3 DEF Fresh, Is

LEMMA FreshGood ==
    ASSUME NEW name \in Foreground \cup Background, NEW at \in PointsOf(name), NEW E,
           NEW phrase \in OrNone(Phrases), name \in Foreground => phrase \in E
    PROVE  /\ Is(Fresh(name, at, phrase), name, at, phrase)
           /\ Good(Fresh(name, at, phrase), E)
<1>1. at \in Points
  BY PointsAre
<1> DEFINE c == Fresh(name, at, phrase)
<1>2. Is(c, name, at, phrase) /\ c.valid = FALSE
  BY <1>1, FreshIs
<1> HIDE DEF c
<1>3. Good(c, E)
  BY <1>2 DEF Is, Good
<1> QED BY <1>2, <1>3 DEF c

LEMMA ReadsGood ==
    ASSUME InUse, NEW c \in Call, NEW at \in PointsOf(c.name), c.phrase \in Entered
    PROVE  /\ Is(Reads(c, at), c.name, at, c.phrase)
           /\ Good(Reads(c, at), Entered)
<1>1. at \in Points
  BY PointsAre DEF Call
<1>2. addresses \in Addresses /\ \A x \in Coins : addresses[x] \in Entered
  BY DEF InUse, Addresses, Entered
<1> DEFINE r == Reads(c, at)
<1>3. r \in Call /\ r.name = c.name /\ r.at = at /\ r.phrase = c.phrase /\ r.read = addresses
  BY <1>1, <1>2 DEF Reads, Call
<1>4. r # None
  BY <1>3
<1> HIDE DEF r
<1>5. Is(r, c.name, at, c.phrase) /\ Good(r, Entered)
  BY <1>2, <1>3, <1>4 DEF Is, Good
<1> QED BY <1>5 DEF r

LEMMA OverlayIs ==
    ASSUME NEW E, NEW read \in Addresses, \A x \in Coins : read[x] \in E,
           NEW done, NEW phrase \in E
    PROVE  Overlay(read, done, phrase) \in [Coins -> E]
  BY DEF Overlay

\* The revision moves: calls stay what they are, and may no longer write.
LEMMA BumpIs ==
    ASSUME NEW cs \in [Slots -> OrNone(Call)]
    PROVE  /\ Bump(cs) \in [Slots -> OrNone(Call)]
           /\ \A s \in Slots : cs[s] = None <=> Bump(cs)[s] = None
           /\ \A s \in Slots : cs[s] # None =>
                 /\ Is(Bump(cs)[s], cs[s].name, cs[s].at, cs[s].phrase)
                 /\ Bump(cs)[s].valid = FALSE
<1> DEFINE bumped(c) == [c EXCEPT !.valid = FALSE, !.read = NoAddresses]
<1>1. ASSUME NEW c \in Call
      PROVE  Is(bumped(c), c.name, c.at, c.phrase) /\ bumped(c).valid = FALSE
  <2>1. NoAddresses \in Addresses
    BY DEF NoAddresses, Addresses
  <2>2. /\ bumped(c) \in Call /\ bumped(c).name = c.name /\ bumped(c).at = c.at
        /\ bumped(c).phrase = c.phrase /\ bumped(c).valid = FALSE
    BY <2>1 DEF Call
  <2>3. bumped(c) # None
    BY <2>2
  <2> HIDE DEF bumped
  <2> QED BY <2>2, <2>3 DEF Is
<1>2. \A s \in Slots : Bump(cs)[s] = IF cs[s] = None THEN None ELSE bumped(cs[s])
  BY DEF Bump
<1>3. Bump(cs) = [s \in Slots |-> IF cs[s] = None THEN None ELSE bumped(cs[s])]
  BY DEF Bump
<1> HIDE DEF bumped
<1>4. ASSUME NEW s \in Slots, cs[s] # None
      PROVE  /\ Is(Bump(cs)[s], cs[s].name, cs[s].at, cs[s].phrase)
             /\ Bump(cs)[s].valid = FALSE
  BY <1>1, <1>2, <1>4
<1>5. \A s \in Slots : cs[s] = None <=> Bump(cs)[s] = None
  BY <1>2, <1>4 DEF Is
<1>6. Bump(cs) \in [Slots -> OrNone(Call)]
  BY <1>1, <1>3 DEF Is
<1> QED BY <1>4, <1>5, <1>6

-----------------------------------------------------------------------------
(* Steps.  A step gives one slot another call, or none, and may start a job *)
(* beside it.                                                               *)

\* The calls a step goes on from: those of before, maybe after a bump.
LEMMA BaseIs ==
    ASSUME CallsGood, NEW cs, cs = calls \/ cs = Bump(calls)
    PROVE  /\ cs \in [Slots -> OrNone(Call)]
           /\ \A s \in Slots : /\ cs[s] = None <=> calls[s] = None
                               /\ cs[s] # None => /\ cs[s].name = calls[s].name
                                                  /\ cs[s].phrase = calls[s].phrase
                                                  /\ Good(cs[s], Entered)
<1>1. calls \in [Slots -> OrNone(Call)] /\ \A s \in Slots : calls[s] # None => Good(calls[s], Entered)
  BY DEF CallsGood, Active
<1>2. CASE cs = calls
  BY <1>1, <1>2
<1>3. CASE cs = Bump(calls)
  <2>1. /\ cs \in [Slots -> OrNone(Call)]
        /\ \A s \in Slots : calls[s] = None <=> cs[s] = None
        /\ \A s \in Slots : calls[s] # None =>
              /\ Is(cs[s], calls[s].name, calls[s].at, calls[s].phrase)
              /\ cs[s].valid = FALSE
    BY <1>1, <1>3, BumpIs
  <2>2. ASSUME NEW s \in Slots, cs[s] # None
        PROVE  /\ cs[s].name = calls[s].name /\ cs[s].phrase = calls[s].phrase
               /\ Good(cs[s], Entered)
    BY <1>1, <2>1, <2>2 DEF Is, Good
  <2> QED BY <2>1, <2>2
<1> QED BY <1>2, <1>3

\* What holds of the calls after a step at slot s: the other calls of pages
\* are those of before.
Stepped(s, next) ==
    /\ next \in [Slots -> OrNone(Call)]
    /\ \A t \in Slots : next[t] # None => Good(next[t], Entered')
    /\ \A t \in Slots \ {s} : next[t] # None /\ next[t].name \in Foreground =>
          /\ calls[t] # None /\ calls[t].name = next[t].name
          /\ calls[t].phrase = next[t].phrase

LEMMA GoodStays ==
    ASSUME NEW c, NEW E, NEW F, E \subseteq F, Good(c, E)
    PROVE  Good(c, F)
  BY DEF Good

LEMMA OneStep ==
    ASSUME CallsGood, NEW s \in Slots,
           NEW cs, cs = calls \/ cs = Bump(calls), Entered \subseteq Entered',
           NEW x \in OrNone(Call), x # None => Good(x, Entered')
    PROVE  Stepped(s, [cs EXCEPT ![s] = x])
<1> DEFINE next == [cs EXCEPT ![s] = x]
<1>1. /\ cs \in [Slots -> OrNone(Call)]
      /\ \A t \in Slots : /\ cs[t] = None <=> calls[t] = None
                          /\ cs[t] # None => /\ cs[t].name = calls[t].name
                                             /\ cs[t].phrase = calls[t].phrase
                                             /\ Good(cs[t], Entered)
  BY BaseIs
<1>2. next \in [Slots -> OrNone(Call)] /\ next[s] = x /\ \A t \in Slots \ {s} : next[t] = cs[t]
  BY <1>1
<1> HIDE DEF next
<1>3. \A t \in Slots \ {s} : next[t] # None =>
          /\ Good(next[t], Entered') /\ calls[t] # None
          /\ calls[t].name = next[t].name /\ calls[t].phrase = next[t].phrase
  BY <1>1, <1>2, GoodStays
<1>4. Stepped(s, next)
  BY <1>2, <1>3 DEF Stepped
<1> QED BY <1>4 DEF next

\* A job is started beside the calls `next`, if there is room.
LEMMA OneMore ==
    ASSUME NEW s \in Slots, NEW next, Stepped(s, next), next[s] # None,
           NEW y \in Call, Good(y, Entered'), y.name \notin Foreground, Spawns(next, y)
    PROVE  Stepped(s, calls') /\ calls'[s] = next[s]
<1>1. CASE calls' = next
  BY <1>1
<1>2. CASE Starts(next, y)
  <2>1. PICK t \in Slots : next[t] = None /\ calls' = [next EXCEPT ![t] = y]
    BY <1>2 DEF Starts
  <2>2. next \in [Slots -> OrNone(Call)]
    BY DEF Stepped
  <2>3. calls' \in [Slots -> OrNone(Call)] /\ calls'[t] = y /\ \A u \in Slots \ {t} : calls'[u] = next[u]
    BY <2>1, <2>2
  <2>4. s # t
    BY <2>1
  <2> QED BY <2>1, <2>3, <2>4 DEF Stepped
<1> QED BY <1>1, <1>2 DEF Spawns

\* The calls of pages beside that at slot s: none, or calls of Settings while
\* the wallet stays open.
Beside(s) ==
    \/ Waited \subseteq {s}
    \/ /\ \A t \in Waited \ {s} : calls[t].name \in InSettings
       /\ isUnlocked' /\ meta' = meta
       /\ calls'[s] # None => calls'[s].name \in InSettings

\* What is left to show of the session after a step at slot s.
LEMMA SessionAfter ==
    ASSUME CallsGood, Session, NEW s \in Slots, Stepped(s, calls'),
           calls'[s] # None => calls'[s].name \in Foreground,
           Clean' => /\ Clean \/ Waited = {}
                     /\ Beside(s)
                     /\ calls'[s] # None => Knows(calls[s])'
                     /\ Open'
                     /\ calls'[s] = None /\ slips' = {} /\ ~ isUnlocked' /\ generatedSeed' = None
                           => NoPhrase'
    PROVE  CallsGood' /\ Session'
<1>1. CallsGood'
  BY DEF Stepped, CallsGood, Active
<1>2. SUFFICES ASSUME Clean' PROVE Session'
  BY <1>1 DEF Session
<1>3. \A t \in Waited' \ {s} : /\ t \in Waited /\ calls'[t].name = calls[t].name
                               /\ calls'[t].phrase = calls[t].phrase
  BY DEF Stepped, Waited, Active
<1>4. s \in Waited' => Knows(calls[s])'
  BY <1>2 DEF Waited, Active
<1>5. LockForgets'
  <2>1. ASSUME Quiet' PROVE calls'[s] = None
    BY <2>1 DEF Quiet, Waited, Active
  <2> QED BY <1>2, <2>1 DEF LockForgets, NoPhrase
<1>6. CASE Waited \subseteq {s}
  <2>1. Waited' \subseteq {s}
    BY <1>3, <1>6
  <2> QED BY <1>2, <1>4, <1>5, <2>1 DEF Session
<1>7. CASE ~ (Waited \subseteq {s})
  <2>1. /\ \A t \in Waited \ {s} : calls[t].name \in InSettings /\ Knows(calls[t])
        /\ isUnlocked' /\ meta' = meta
        /\ calls'[s] # None => calls'[s].name \in InSettings
    BY <1>2, <1>7 DEF Beside, Session
  <2>2. \A t \in Waited' \ {s} : calls'[t].name \in InSettings /\ calls'[t].phrase = meta
    BY <1>3, <2>1 DEF Knows
  <2>3. \A t \in Waited' \ {s} : Knows(calls[t])'
    BY <2>1, <2>2 DEF Knows, InSettings
  <2>4. \A t \in Waited' : calls'[t].name \in InSettings
    BY <2>1, <2>2 DEF Waited, Active
  <2> QED BY <1>2, <1>4, <1>5, <2>3, <2>4 DEF Session
<1> QED BY <1>6, <1>7

\* A step of a job leaves the session alone.
LEMMA JobStep ==
    ASSUME IInv, NEW s \in Slots, s \notin Waited,
           NEW x \in OrNone(Call), x # None => Good(x, Entered) /\ x.name \notin Foreground,
           calls' = [calls EXCEPT ![s] = x],
           UNCHANGED << meta, cache, pending, auth, entered >>,
           Clean' => Clean, slips' = {} => slips = {}
    PROVE  CallsGood' /\ Session'
<1>1. /\ calls \in [Slots -> OrNone(Call)]
      /\ \A t \in Slots : calls[t] # None => Good(calls[t], Entered)
  BY DEF IInv, CallsGood, Active
<1>2. /\ calls' \in [Slots -> OrNone(Call)]
      /\ calls'[s] = x /\ \A t \in Slots \ {s} : calls'[t] = calls[t]
  BY <1>1
<1>3. Entered' = Entered
  BY DEF Entered
<1>4. CallsGood'
  BY <1>1, <1>2, <1>3 DEF CallsGood, Active
<1>5. Waited' = Waited /\ \A t \in Waited : calls'[t] = calls[t]
  BY <1>2 DEF Waited, Active
<1>6. ASSUME Clean' PROVE \A t \in Waited' : Knows(calls[t])'
  BY <1>5, <1>6 DEF IInv, Session, Knows, Held, NoPhrase, auth
<1>7. Quiet' => Quiet
  BY <1>5 DEF Quiet
<1>8. ASSUME Clean' PROVE Open' /\ LockForgets'
  BY <1>7, <1>8 DEF IInv, Session, Open, LockForgets, auth
<1>9. Session'
  BY <1>5, <1>6, <1>8 DEF IInv, Session
<1> QED BY <1>4, <1>9

-----------------------------------------------------------------------------
(* One lemma per action.                                                    *)

LEMMA CallAt ==
    ASSUME IInv, NEW s \in Slots, calls[s] # None
    PROVE  /\ calls[s] \in Call /\ Good(calls[s], Entered)
           /\ calls[s].name \in Foreground \cup Background
           /\ calls[s].phrase \in OrNone(Phrases) /\ calls[s].read \in Addresses
           /\ s \in Waited <=> calls[s].name \in Foreground
           /\ calls[s].name \in Foreground => calls[s].phrase \in Entered
<1>1. calls[s] \in Call /\ Good(calls[s], Entered)
  BY DEF IInv, CallsGood, Active
<1> QED BY <1>1 DEF Call, Good, Waited, Active

\* While the session is clean, a login is alone and knows what it does.
LEMMA AloneAt ==
    ASSUME IInv, NEW s \in Slots, calls[s] # None,
           calls[s].name \in Foreground \ InSettings
    PROVE  Clean => Waited \subseteq {s} /\ Knows(calls[s])
<1>1. s \in Waited
  BY DEF Waited, Active
<1> QED BY <1>1 DEF IInv, Session

LEMMA InSettingsAt ==
    ASSUME IInv, NEW s \in Slots, calls[s] # None, calls[s].name \in InSettings
    PROVE  Clean => /\ \A t \in Waited : calls[t].name \in InSettings
                    /\ isUnlocked /\ calls[s].phrase = meta
                    /\ meta # None /\ cache = meta /\ sessionMnemonic = meta
                    /\ generatedSeed = None
<1>1. s \in Waited
  BY DEF Waited, Active, InSettings, Foreground
<1>2. ASSUME Clean PROVE Knows(calls[s]) /\ Open /\ isUnlocked
  BY <1>1, <1>2 DEF IInv, Session, Knows
<1>3. ASSUME Clean PROVE \A t \in Waited : calls[t].name \in InSettings
  BY <1>1, <1>3 DEF IInv, Session
<1> QED BY <1>2, <1>3 DEF Knows, Open

\* In an open wallet only calls of Settings are under way.
LEMMA WhenOpen ==
    ASSUME IInv, Clean, isUnlocked
    PROVE  \A t \in Waited : calls[t].name \in InSettings
<1>1. \A t \in Waited : Knows(calls[t]) /\ calls[t].name \in Foreground
  BY DEF IInv, Session, Waited
<1> QED BY <1>1 DEF Knows, Foreground, InSettings

LEMMA CleanNotLeft == Clean => ~ Left
  BY DEF Clean, Left

LEMMA TypesOf == IInv => TypeOK
  BY DEF IInv, InUse, CallsGood, Entered, TypeOK, Addresses

LEMMA SameUse ==
    ASSUME InUse, UNCHANGED << stored, cache, pending, auth, entered >>, slips' \subseteq Slips
    PROVE  InUse' /\ Entered' = Entered
  BY DEF InUse, Entered, stored, auth

\* A step of the call at s, or one that starts it there.
LEMMA StepTo ==
    ASSUME CallsGood, NEW s \in Slots,
           NEW cs, cs = calls \/ cs = Bump(calls), Entered \subseteq Entered',
           NEW x \in OrNone(Call), x # None => Good(x, Entered'),
           calls' = [cs EXCEPT ![s] = x]
    PROVE  Stepped(s, calls') /\ calls'[s] = x
<1>1. Stepped(s, calls')
  BY OneStep
<1>2. cs \in [Slots -> OrNone(Call)]
  BY BaseIs
<1> QED BY <1>1, <1>2

\* A call of Settings goes on, or ends, in a wallet that stays open.
LEMMA SettingsStep ==
    ASSUME IInv, NEW s \in Slots, calls[s] # None, calls[s].name \in InSettings,
           Stepped(s, calls'),
           calls'[s] # None => calls'[s].name \in InSettings /\ calls'[s].phrase = calls[s].phrase,
           Clean' => Clean,
           Clean => meta' = meta /\ cache' = cache,
           UNCHANGED auth
    PROVE  CallsGood' /\ Session'
<1>1. ASSUME Clean'
      PROVE  /\ Beside(s) /\ Open' /\ isUnlocked'
             /\ calls'[s] # None => Knows(calls[s])'
  <2>1. /\ \A t \in Waited : calls[t].name \in InSettings
        /\ isUnlocked' /\ meta' = meta /\ calls[s].phrase = meta
        /\ meta # None /\ cache' = meta /\ sessionMnemonic' = meta /\ generatedSeed' = None
    BY <1>1, InSettingsAt DEF auth
  <2>2. Beside(s) /\ Open'
    BY <2>1 DEF Beside, Open
  <2>3. calls'[s] # None => Knows(calls[s])'
    BY <2>1 DEF Knows, InSettings
  <2> QED BY <2>1, <2>2, <2>3
<1>2. calls'[s] # None => calls'[s].name \in Foreground
  BY DEF InSettings, Foreground
<1>3. ASSUME Clean' PROVE calls'[s] = None /\ slips' = {} /\ ~ isUnlocked' /\ generatedSeed' = None => NoPhrase'
  BY <1>1, <1>3
<1> QED BY <1>1, <1>2, <1>3, SessionAfter DEF IInv

LEMMA UnlockStep == ASSUME IInv, Unlock PROVE IInv'
<1>1. PICK name \in {"unlock", "change"} :
         /\ name = "unlock" => ~ isUnlocked /\ (Left \/ (generatedSeed = None /\ Quiet))
         /\ name = "change" => isUnlocked
         /\ Starts(calls, Fresh(name, "verify", meta))
  BY DEF Unlock
<1>2. meta # None /\ UNCHANGED << stored, cache, pending, auth, history >>
  BY DEF Unlock
<1>3. InUse' /\ Entered' = Entered /\ meta \in Entered /\ meta \in OrNone(Phrases)
  BY <1>2, SameUse DEF IInv, InUse, Entered, history
<1> DEFINE x == Fresh(name, "verify", meta)
<1>4. Is(x, name, "verify", meta) /\ Good(x, Entered')
  BY <1>3, FreshGood DEF Foreground, PointsOf
<1>5. PICK t \in Slots : calls' = [calls EXCEPT ![t] = x]
  BY <1>1 DEF Starts
<1> HIDE DEF x
<1>6. Stepped(t, calls') /\ calls'[t] = x
  BY <1>3, <1>4, <1>5, StepTo DEF Is, IInv
<1>7. calls'[t] # None /\ calls'[t].name \in Foreground
  BY <1>4, <1>6 DEF Is, Foreground
<1>8. ASSUME Clean' PROVE Clean /\ Beside(t) /\ Knows(calls[t])' /\ Open'
  <2>1. Clean /\ slips' = slips
    BY <1>2, <1>8 DEF Clean, history
  <2>2. Open'
    BY <1>2, <2>1 DEF IInv, Session, Open, stored, auth
  <2>3. CASE name = "unlock"
    <3>1. Waited = {} /\ generatedSeed = None /\ ~ isUnlocked
      BY <1>1, <2>1, <2>3, CleanNotLeft DEF Quiet
    <3>2. slips = {} => NoPhrase
      BY <2>1, <3>1 DEF IInv, Session, LockForgets, NoPhrase, Quiet
    <3>3. Knows(calls[t])'
      BY <1>2, <1>4, <1>6, <2>1, <2>3, <3>1, <3>2
         DEF Knows, Is, NoPhrase, InSettings, stored, auth
    <3> QED BY <2>1, <2>2, <3>1, <3>3 DEF Beside
  <2>4. CASE name = "change"
    <3>1. \A u \in Waited : calls[u].name \in InSettings
      BY <1>1, <2>1, <2>4, WhenOpen
    <3>2. Knows(calls[t])' /\ Beside(t)
      BY <1>1, <1>2, <1>4, <1>6, <2>4, <3>1 DEF Knows, Is, InSettings, Beside, stored, auth
    <3> QED BY <2>1, <2>2, <3>2
  <2> QED BY <2>3, <2>4
<1> QED BY <1>3, <1>4, <1>6, <1>7, <1>8, SessionAfter DEF IInv, Is

LEMMA VerifiedStep == ASSUME IInv, NEW s \in Slots, Verified(s) PROVE IInv'
<1>1. /\ calls[s] # None /\ calls[s].at = "verify" /\ cache' = calls[s].phrase
      /\ UNCHANGED << stored, pending, auth, history >>
      /\ calls' = [Bump(calls) EXCEPT ![s] = Reads(Bump(calls)[s], "derive")]
  <2>1. Bump(calls) = [t \in Slots |-> Bump(calls)[t]]
    BY DEF Bump
  <2> QED BY <2>1 DEF Verified, At
<1>2. calls[s].name \in {"unlock", "change"}
  BY <1>1, CallAt DEF Good, PointsOf, Foreground, Background
<1>3. calls[s].phrase \in Entered /\ calls \in [Slots -> OrNone(Call)]
  BY <1>1, <1>2, CallAt DEF Foreground, IInv, CallsGood
<1> DEFINE b == Bump(calls)[s]
           x == Reads(b, "derive")
<1>4. Is(b, calls[s].name, "verify", calls[s].phrase)
  BY <1>1, <1>3, BumpIs
<1> HIDE DEF b
<1>5. Is(x, calls[s].name, "derive", calls[s].phrase) /\ Good(x, Entered)
  <2>1. b \in Call /\ "derive" \in PointsOf(b.name) /\ b.phrase \in Entered
    BY <1>2, <1>3, <1>4 DEF Is, PointsOf
  <2> QED BY <1>4, <2>1, ReadsGood DEF IInv, Is
<1>6. InUse' /\ Entered' = Entered
  BY <1>1, <1>3 DEF IInv, InUse, Entered, stored, auth, history
<1> HIDE DEF x
<1>7. Stepped(s, calls') /\ calls'[s] = x
  <2>1. calls' = [Bump(calls) EXCEPT ![s] = x] /\ x \in OrNone(Call)
    BY <1>1, <1>5 DEF x, b, Is
  <2> QED BY <1>3, <1>5, <1>6, <2>1, StepTo DEF IInv
<1>8. Clean' <=> Clean
  BY <1>1 DEF Clean, history
<1>9. CASE calls[s].name = "unlock"
  <2>1. Clean => Waited \subseteq {s} /\ Knows(calls[s])
    BY <1>1, <1>9, AloneAt DEF Foreground, InSettings
  <2>2. Clean => Knows(calls[s])' /\ Open' /\ Beside(s)
    BY <1>1, <1>5, <1>7, <1>9, <2>1
       DEF Knows, Is, Held, Open, Beside, InSettings, stored, auth
  <2>3. calls'[s] # None /\ calls'[s].name \in Foreground
    BY <1>5, <1>7, <1>9 DEF Is, Foreground
  <2> QED BY <1>6, <1>7, <1>8, <2>2, <2>3, SessionAfter DEF IInv
<1>10. CASE calls[s].name = "change"
  <2>1. Clean => cache' = cache /\ meta' = meta
    BY <1>1, <1>10, InSettingsAt DEF InSettings, stored
  <2>2. calls'[s].name \in InSettings /\ calls'[s].phrase = calls[s].phrase
    BY <1>5, <1>7, <1>10 DEF Is, InSettings
  <2> QED BY <1>1, <1>6, <1>7, <1>8, <1>10, <2>1, <2>2, SettingsStep DEF IInv, InSettings
<1> QED BY <1>2, <1>9, <1>10

LEMMA ValidatedStep == ASSUME IInv, NEW s \in Slots, Validated(s) PROVE IInv'
<1>1. /\ calls[s] # None /\ calls[s].at = "validate"
      /\ UNCHANGED << stored, cache, pending, auth, history >>
      /\ calls' = [calls EXCEPT ![s] = Reads(calls[s], "derive")]
  BY DEF Validated, At, IInv, CallsGood
<1>2. calls[s].name = "restore"
  BY <1>1, CallAt DEF Good, PointsOf, Foreground, Background
<1>3. calls[s].phrase \in Entered /\ calls[s] \in Call
  BY <1>1, <1>2, CallAt DEF Foreground
<1> DEFINE x == Reads(calls[s], "derive")
<1>5. Is(x, "restore", "derive", calls[s].phrase) /\ Good(x, Entered)
  <2>1. "derive" \in PointsOf(calls[s].name)
    BY <1>2 DEF PointsOf
  <2> QED BY <1>2, <1>3, <2>1, ReadsGood DEF IInv
<1>6. InUse' /\ Entered' = Entered
  BY <1>1, SameUse DEF IInv, InUse, history
<1> HIDE DEF x
<1>7. Stepped(s, calls') /\ calls'[s] = x
  <2>1. calls' = [calls EXCEPT ![s] = x] /\ x \in OrNone(Call)
    BY <1>1, <1>5 DEF x, Is
  <2> QED BY <1>5, <1>6, <2>1, StepTo DEF IInv
<1>8. (Clean' <=> Clean) /\ (Clean => Waited \subseteq {s} /\ Knows(calls[s]))
  BY <1>1, <1>2, AloneAt DEF Foreground, InSettings, Clean, history
<1>9. Clean => Knows(calls[s])' /\ Open' /\ Beside(s)
  BY <1>1, <1>2, <1>5, <1>7, <1>8
     DEF Knows, Is, NoPhrase, Open, Beside, InSettings, stored, auth
<1>10. calls'[s] # None /\ calls'[s].name \in Foreground
  BY <1>5, <1>7 DEF Is, Foreground
<1> QED BY <1>6, <1>7, <1>8, <1>9, <1>10, SessionAfter DEF IInv

LEMMA ResetDoneStep == ASSUME IInv, NEW s \in Slots, ResetDone(s) PROVE IInv'
<1>1. PICK point \in {"validate", "generate"} :
         /\ calls[s] # None /\ calls[s].at = "reset"
         /\ UNCHANGED << stored, cache, pending, auth, history >>
         /\ point = IF Bump(calls)[s].name = "restore" THEN "validate" ELSE "generate"
         /\ calls' = [Bump(calls) EXCEPT ![s] = MovesTo(Bump(calls)[s], point)]
  <2>1. Bump(calls) = [t \in Slots |-> Bump(calls)[t]]
    BY DEF Bump
  <2> QED BY <2>1 DEF ResetDone, At
<1>2. calls[s].name \in {"restore", "create"}
  BY <1>1, CallAt DEF Good, PointsOf, Foreground, Background
<1>3. /\ calls[s].phrase \in Entered
      /\ calls \in [Slots -> OrNone(Call)] /\ calls[s].phrase \in OrNone(Phrases)
  BY <1>1, <1>2, CallAt DEF Foreground, IInv, CallsGood
<1>4. Is(Bump(calls)[s], calls[s].name, "reset", calls[s].phrase)
  BY <1>1, <1>3, BumpIs
<1> DEFINE x == MovesTo(Bump(calls)[s], point)
<1>5. Is(x, calls[s].name, point, calls[s].phrase) /\ Good(x, Entered)
  <2>1. point \in PointsOf(calls[s].name)
    BY <1>1, <1>2, <1>4 DEF PointsOf, Is
  <2>2. calls[s].name \in Foreground \cup Background
    BY <1>2 DEF Foreground
  <2>3. x = Fresh(calls[s].name, point, calls[s].phrase)
    BY <1>4 DEF MovesTo, Is
  <2> QED BY <1>3, <2>1, <2>2, <2>3, FreshGood
<1>6. InUse' /\ Entered' = Entered
  BY <1>1, SameUse DEF IInv, InUse, history
<1> HIDE DEF x
<1>7. Stepped(s, calls') /\ calls'[s] = x
  <2>1. calls' = [Bump(calls) EXCEPT ![s] = x] /\ x \in OrNone(Call)
    BY <1>1, <1>5 DEF x, Is
  <2> QED BY <1>5, <1>6, <2>1, StepTo DEF IInv
<1>8. (Clean' <=> Clean) /\ (Clean => Waited \subseteq {s} /\ Knows(calls[s]))
  BY <1>1, <1>2, AloneAt DEF Foreground, InSettings, Clean, history
<1>9. Clean => Knows(calls[s])' /\ Open' /\ Beside(s)
  BY <1>1, <1>2, <1>5, <1>7, <1>8
     DEF Knows, Is, NoPhrase, Open, Beside, InSettings, stored, auth
<1>10. calls'[s] # None /\ calls'[s].name \in Foreground
  BY <1>2, <1>5, <1>7 DEF Is, Foreground
<1> QED BY <1>6, <1>7, <1>8, <1>9, <1>10, SessionAfter DEF IInv

\* A call returns, or fails, with the session as it was.
LEMMA EndStep ==
    ASSUME IInv, NEW s \in Slots, calls[s] # None,
           calls' = [calls EXCEPT ![s] = None],
           UNCHANGED << meta, cache, auth, entered >>, InUse',
           Clean' => Clean, slips' = {} => slips = {},
           calls[s].name \in Foreground /\ Knows(calls[s]) /\ slips' = {} =>
              (~ isUnlocked /\ generatedSeed = None => NoPhrase)
    PROVE  IInv'
<1>1. Entered' = Entered
  BY DEF Entered
<1>2. CASE calls[s].name \in Foreground
  <2>1. Stepped(s, calls') /\ calls'[s] = None
    BY <1>1, StepTo DEF IInv
  <2>2. ASSUME Clean' PROVE Open' /\ Beside(s)
    <3>1. Open'
      BY <2>2 DEF IInv, Session, Open, auth
    <3>2. CASE calls[s].name \in InSettings
      BY <2>1, <2>2, <3>1, <3>2, InSettingsAt DEF Beside, auth
    <3>3. CASE calls[s].name \notin InSettings
      BY <1>2, <2>2, <3>1, <3>3, AloneAt DEF Beside
    <3> QED BY <3>1, <3>2, <3>3
  <2>3. ASSUME Clean', slips' = {}, ~ isUnlocked', generatedSeed' = None PROVE NoPhrase'
    <3>1. s \in Waited
      BY <1>2 DEF Waited, Active
    <3>2. Knows(calls[s])
      BY <2>3, <3>1 DEF IInv, Session
    <3> QED BY <1>2, <2>3, <3>2 DEF NoPhrase, auth
  <2> QED BY <2>1, <2>2, <2>3, SessionAfter DEF IInv
<1>3. CASE calls[s].name \notin Foreground
  <2>1. s \notin Waited
    BY <1>3 DEF Waited
  <2>2. Waited' = Waited /\ \A t \in Waited : calls'[t] = calls[t]
    BY <2>1 DEF Waited, Active, IInv, CallsGood
  <2>3. CallsGood'
    BY <1>1 DEF IInv, CallsGood, Active
  <2>4. ASSUME Clean' PROVE \A t \in Waited' : Knows(calls[t])'
    BY <2>2, <2>4 DEF IInv, Session, Knows, Held, NoPhrase, auth
  <2>5. ASSUME Clean' PROVE Open' /\ LockForgets'
    BY <2>2, <2>5 DEF IInv, Session, Open, LockForgets, Quiet, auth
  <2>6. Session'
    BY <2>2, <2>4, <2>5 DEF IInv, Session
  <2> QED BY <2>3, <2>6 DEF IInv
<1> QED BY <1>2, <1>3

LEMMA FailsStep == ASSUME IInv, NEW s \in Slots, Fails(s) PROVE IInv'
<1>1. /\ calls[s] # None
      /\ \/ /\ \/ calls[s].at \in {"verify", "reset", "validate", "generate", "decrypt",
                                "ensure", "snapshot"}
               \/ calls[s].at = "settle" /\ calls[s].name = "finalize"
            /\ slips' = slips
         \/ slips' = slips \cup {"abandoned"}
      /\ calls' = [calls EXCEPT ![s] = None]
      /\ UNCHANGED << stored, cache, pending, auth, entered >>
  BY DEF Fails, Ends
<1>2. calls[s].name \in Foreground /\ Knows(calls[s]) /\ slips' = {} =>
         (~ isUnlocked /\ generatedSeed = None => NoPhrase)
  <2>1. slips' = {} => \/ calls[s].at \in {"verify", "reset", "validate", "generate", "decrypt",
                                       "ensure", "snapshot"}
                       \/ calls[s].at = "settle" /\ calls[s].name = "finalize"
    BY <1>1
  <2> QED BY <1>1, <2>1, CallAt DEF Good, PointsOf, Foreground, Background, Knows, InSettings
<1>3. (Clean' => Clean) /\ (slips' = {} => slips = {}) /\ slips' \subseteq Slips
  BY <1>1 DEF Clean, IInv, InUse, Slips
<1> QED BY <1>1, <1>2, <1>3, SameUse, EndStep DEF IInv, stored

LEMMA SecretFailedStep == ASSUME IInv, NEW s \in Slots, SecretFailed(s) PROVE IInv'
<1>1. /\ calls[s] # None /\ calls[s].at = "secret"
      /\ calls' = [calls EXCEPT ![s] = None]
      /\ pending' \in {None, pending}
      /\ UNCHANGED << stored, cache, auth, history >>
  BY DEF SecretFailed, At
<1>2. calls[s].name \in Foreground /\ Knows(calls[s]) =>
         (~ isUnlocked /\ generatedSeed = None => NoPhrase)
  BY <1>1, CallAt DEF Good, PointsOf, Foreground, Background, Knows, InSettings
<1>3. InUse'
  BY <1>1 DEF IInv, InUse, Entered, stored, auth, history
<1>4. (Clean' => Clean) /\ (slips' = {} => slips = {})
  BY <1>1 DEF Clean, history
<1> QED BY <1>1, <1>2, <1>3, <1>4, EndStep DEF stored, history

LEMMA LoadedStep == ASSUME IInv, NEW s \in Slots, Loaded(s) PROVE IInv'
<1>1. /\ calls[s] # None /\ calls[s].at = "load" /\ isUnlocked' = TRUE
      /\ generatedSeed' = IF calls[s].name = "finalize" THEN None ELSE generatedSeed
      /\ calls' = [calls EXCEPT ![s] = None]
      /\ UNCHANGED << stored, cache, pending, sessionMnemonic, history >>
  BY DEF Loaded, At
<1>2. calls[s].name \in {"unlock", "restore", "finalize"}
  BY <1>1, CallAt DEF Good, PointsOf, Foreground, Background
<1>3. InUse' /\ Entered' = Entered
  BY <1>1 DEF IInv, InUse, Entered, stored, history
<1>4. Stepped(s, calls') /\ calls'[s] = None
  BY <1>1, <1>3, StepTo DEF IInv
<1>5. (Clean' <=> Clean) /\ (Clean => Waited \subseteq {s} /\ Knows(calls[s]))
  BY <1>1, <1>2, AloneAt DEF Foreground, InSettings, Clean, history
<1>6. Clean => Open' /\ Beside(s)
  BY <1>1, <1>2, <1>5 DEF Knows, Held, Open, Beside, stored
<1> QED BY <1>1, <1>3, <1>4, <1>5, <1>6, SessionAfter DEF IInv

LEMMA GeneratedStep ==
    ASSUME IInv, NEW s \in Slots, NEW p \in Phrases, Generated(s, p) PROVE IInv'
<1>1. /\ calls[s] # None /\ calls[s].at = "generate"
      /\ cache' = p /\ pending' = p /\ generatedSeed' = p /\ isUnlocked' = FALSE
      /\ calls' = [calls EXCEPT ![s] = None]
      /\ entered' = entered \cup {p}
      /\ UNCHANGED << stored, sessionMnemonic, slips >>
  BY DEF Generated, At
<1>2. calls[s].name = "create"
  BY <1>1, CallAt DEF Good, PointsOf, Foreground, Background
<1>3. Entered \subseteq Entered' /\ p \in Entered' /\ entered' \subseteq Phrases
  BY <1>1 DEF Entered, IInv, InUse
<1>4. InUse'
  BY <1>1, <1>3 DEF IInv, InUse, stored
<1>5. Stepped(s, calls') /\ calls'[s] = None
  BY <1>1, <1>3, StepTo DEF IInv
<1>6. (Clean' <=> Clean) /\ (Clean => Waited \subseteq {s})
  BY <1>1, <1>2, AloneAt DEF Foreground, InSettings, Clean
<1>7. Open' /\ (Clean => Beside(s)) /\ generatedSeed' # None
  BY <1>1, <1>6 DEF Open, Beside
<1> QED BY <1>4, <1>5, <1>6, <1>7, SessionAfter DEF IInv

LEMMA DecryptedStep == ASSUME IInv, NEW s \in Slots, Decrypted(s) PROVE IInv'
<1>1. /\ calls[s] # None /\ calls[s].at = "decrypt" /\ calls[s].phrase # None
      /\ \/ /\ calls[s].name = "reveal" /\ cache' = calls[s].phrase
            /\ calls' = [calls EXCEPT ![s] = None]
         \/ /\ calls[s].name = "change" /\ cache' = cache
            /\ calls' = [calls EXCEPT ![s] = MovesTo(calls[s], "secret")]
      /\ UNCHANGED << stored, pending, auth, history >>
  BY DEF Decrypted, At, IInv, CallsGood
<1>2. /\ calls[s].phrase \in Entered /\ calls[s].phrase \in OrNone(Phrases)
      /\ calls[s].name \in InSettings
  BY <1>1, CallAt DEF Foreground, InSettings
<1>3. InUse' /\ Entered' = Entered
  BY <1>1, <1>2 DEF IInv, InUse, Entered, stored, auth, history
<1>4. (Clean' <=> Clean) /\ (Clean => meta' = meta /\ cache' = cache)
  <2>1. Clean => calls[s].phrase = meta /\ cache = meta
    BY <1>1, <1>2, InSettingsAt
  <2> QED BY <1>1, <2>1 DEF Clean, stored, history
<1>5. CASE calls[s].name = "reveal"
  <2>1. Stepped(s, calls') /\ calls'[s] = None
    BY <1>1, <1>3, <1>5, StepTo DEF IInv
  <2> QED BY <1>1, <1>2, <1>3, <1>4, <2>1, SettingsStep DEF IInv
<1>6. CASE calls[s].name = "change"
  <2> DEFINE x == MovesTo(calls[s], "secret")
  <2>1. Is(x, "change", "secret", calls[s].phrase) /\ Good(x, Entered)
    BY <1>2, <1>6, FreshGood DEF MovesTo, Foreground, PointsOf
  <2>2. calls' = [calls EXCEPT ![s] = x]
    BY <1>1, <1>6
  <2> HIDE DEF x
  <2>3. Stepped(s, calls') /\ calls'[s] = x
    BY <1>3, <2>1, <2>2, StepTo DEF Is, IInv
  <2>4. calls'[s].name \in InSettings /\ calls'[s].phrase = calls[s].phrase
    BY <2>1, <2>3 DEF Is, InSettings
  <2> QED BY <1>1, <1>2, <1>3, <1>4, <2>3, <2>4, SettingsStep DEF IInv
<1> QED BY <1>1, <1>5, <1>6

LEMMA SecretStoredStep == ASSUME IInv, NEW s \in Slots, SecretStored(s) PROVE IInv'
<1>1. /\ calls[s] # None /\ calls[s].at = "secret" /\ meta' = calls[s].phrase
      /\ UNCHANGED << addresses, auth, history >>
  BY DEF SecretStored, At
<1>2. calls[s].name \in {"restore", "finalize", "change"}
  BY <1>1, CallAt DEF Good, PointsOf, Foreground, Background
<1>3. /\ calls[s].phrase \in Entered
      /\ calls[s].phrase \in OrNone(Phrases) /\ calls[s] \in Call
      /\ calls \in [Slots -> OrNone(Call)]
  BY <1>1, <1>2, CallAt DEF Foreground, IInv, CallsGood
<1> DEFINE b == Bump(calls)[s]
<1>4. Is(b, calls[s].name, "secret", calls[s].phrase) /\ Bump(calls) = [t \in Slots |-> Bump(calls)[t]]
  BY <1>1, <1>3, BumpIs DEF Bump
<1> HIDE DEF b
<1>5. Entered' = Entered /\ (Clean' <=> Clean)
  BY <1>1 DEF Entered, Clean, history
<1>6. CASE calls[s].name = "restore"
  <2> DEFINE x == MovesTo(b, "settle")
  <2>1. /\ cache' = calls[s].phrase /\ pending' = pending
        /\ calls' = [Bump(calls) EXCEPT ![s] = x]
    BY <1>1, <1>4, <1>6 DEF SecretStored, b
  <2>2. Is(x, "restore", "settle", calls[s].phrase) /\ Good(x, Entered)
    <3>1. x = Fresh("restore", "settle", calls[s].phrase)
      BY <1>4, <1>6 DEF MovesTo, Is
    <3> QED BY <1>3, <3>1, FreshGood DEF Foreground, PointsOf
  <2> HIDE DEF x
  <2>3. Stepped(s, calls') /\ calls'[s] = x
    BY <1>5, <2>1, <2>2, StepTo DEF Is, IInv
  <2>4. InUse'
    BY <1>1, <1>3, <1>5, <2>1 DEF IInv, InUse, auth, history
  <2>5. Clean => Waited \subseteq {s} /\ Knows(calls[s])
    BY <1>1, <1>6, AloneAt DEF Foreground, InSettings
  <2>6. Clean => Knows(calls[s])' /\ Open' /\ Beside(s)
    BY <1>1, <1>6, <2>1, <2>2, <2>3, <2>5
       DEF Knows, Held, Is, Open, Beside, InSettings, auth
  <2>7. calls'[s] # None /\ calls'[s].name \in Foreground
    BY <2>2, <2>3 DEF Is, Foreground
  <2> QED BY <1>5, <2>3, <2>4, <2>6, <2>7, SessionAfter DEF IInv
<1>7. CASE calls[s].name = "finalize"
  <2> DEFINE x == Reads(b, "derive")
  <2>1. /\ cache' = calls[s].phrase /\ pending' = None
        /\ calls' = [Bump(calls) EXCEPT ![s] = x]
    BY <1>1, <1>4, <1>7 DEF SecretStored, b
  <2>2. Is(x, "finalize", "derive", calls[s].phrase) /\ Good(x, Entered)
    <3>1. b \in Call /\ "derive" \in PointsOf(b.name) /\ b.phrase \in Entered
      BY <1>3, <1>4, <1>7 DEF Is, PointsOf
    <3> QED BY <1>4, <1>7, <3>1, ReadsGood DEF IInv, Is
  <2> HIDE DEF x
  <2>3. Stepped(s, calls') /\ calls'[s] = x
    BY <1>5, <2>1, <2>2, StepTo DEF Is, IInv
  <2>4. InUse'
    BY <1>1, <1>3, <1>5, <2>1 DEF IInv, InUse, auth, history, Entered
  <2>5. Clean => Waited \subseteq {s} /\ Knows(calls[s])
    BY <1>1, <1>7, AloneAt DEF Foreground, InSettings
  <2>6. calls[s].phrase # None /\ Clean => Knows(calls[s])' /\ Open' /\ Beside(s)
    BY <1>1, <1>7, <2>1, <2>2, <2>3, <2>5
       DEF Knows, Held, Is, Open, Beside, InSettings, auth
  <2>7. Clean => calls[s].phrase # None
    BY <1>7, <2>5 DEF Knows
  <2>8. calls'[s] # None /\ calls'[s].name \in Foreground
    BY <2>2, <2>3 DEF Is, Foreground
  <2> QED BY <1>5, <2>3, <2>4, <2>6, <2>7, <2>8, SessionAfter DEF IInv
<1>8. CASE calls[s].name = "change"
  <2> DEFINE r == Reads(calls[s], "derive")
             x == [r EXCEPT !.name = "resave"]
  <2>1. cache' = cache /\ pending' = pending /\ calls' = [calls EXCEPT ![s] = x]
    BY <1>1, <1>3, <1>8 DEF SecretStored
  <2>2. Is(r, "change", "derive", calls[s].phrase) /\ Good(r, Entered)
    BY <1>3, <1>8, ReadsGood DEF IInv, PointsOf
  <2> HIDE DEF r
  <2>3. /\ x \in Call /\ x.name = "resave" /\ x.at = "derive" /\ x.phrase = calls[s].phrase
        /\ x.valid = r.valid /\ x.read = r.read
    BY <2>2 DEF Is, Call, Foreground
  <2>4. x # None
    BY <2>3
  <2> HIDE DEF x
  <2>5. Is(x, "resave", "derive", calls[s].phrase) /\ Good(x, Entered)
    BY <1>3, <2>2, <2>3, <2>4 DEF Is, Good, PointsOf
  <2>6. Stepped(s, calls') /\ calls'[s] = x
    BY <1>5, <2>1, <2>5, StepTo DEF Is, IInv
  <2>7. InUse'
    BY <1>1, <1>3, <1>5, <2>1 DEF IInv, InUse, auth, history
  <2>8. /\ calls'[s].name \in InSettings /\ calls'[s].phrase = calls[s].phrase
        /\ calls[s].name \in InSettings
    BY <1>8, <2>5, <2>6 DEF Is, InSettings
  <2>9. Clean => meta' = meta /\ cache' = cache
    BY <1>1, <2>1, <2>8, InSettingsAt
  <2> QED BY <1>1, <1>5, <2>6, <2>7, <2>8, <2>9, SettingsStep DEF IInv
<1> QED BY <1>2, <1>6, <1>7, <1>8

\* What a call writes is in use.
LEMMA WritesUsed ==
    ASSUME IInv, NEW s \in Slots, calls[s] # None, NEW done, calls[s].valid
    PROVE  Overlay(calls[s].read, done, calls[s].phrase) \in [Coins -> Entered]
<1>1. /\ calls[s].read \in Addresses /\ calls[s].phrase \in Entered
      /\ \A x \in Coins : calls[s].read[x] \in Entered
  BY CallAt DEF Good
<1> QED BY <1>1, OverlayIs

LEMMA PrivacyRefreshedStep == ASSUME IInv, NEW s \in Slots, PrivacyRefreshed(s) PROVE IInv'
<1>1. PICK done \in SUBSET Privacy :
         /\ calls[s] # None /\ calls[s].at = "privacy"
         /\ \/ addresses' = addresses
            \/ calls[s].valid /\ addresses' = Overlay(calls[s].read, done, calls[s].phrase)
         /\ calls' = [calls EXCEPT ![s] = None]
         /\ UNCHANGED << meta, cache, pending, auth, history >>
  BY DEF PrivacyRefreshed, At
<1>2. addresses' \in [Coins -> Entered]
  BY <1>1, WritesUsed DEF IInv, InUse
<1>3. InUse'
  BY <1>1, <1>2 DEF IInv, InUse, Entered, auth, history
<1>4. calls[s].name \in Foreground /\ Knows(calls[s]) => isUnlocked
  BY <1>1, CallAt DEF Good, PointsOf, Foreground, Background, Knows, InSettings
<1>5. (Clean' => Clean) /\ (slips' = {} => slips = {})
  BY <1>1 DEF Clean, history
<1> QED BY <1>1, <1>3, <1>4, <1>5, EndStep DEF history

LEMMA EnsuredStep ==
    ASSUME IInv, NEW s \in Slots, Ensured(s) \/ SnapshotApplied(s) PROVE IInv'
<1>1. /\ calls[s] # None /\ calls[s].at \in {"ensure", "snapshot"}
      /\ addresses' \in {addresses, [addresses EXCEPT ![calls[s].coin] = cache]}
      /\ calls' = [calls EXCEPT ![s] = None]
      /\ UNCHANGED << meta, cache, pending, auth, history >>
  BY DEF Ensured, SnapshotApplied, At
<1>2. addresses' \in [Coins -> Entered]
  BY <1>1 DEF IInv, InUse
<1>3. InUse'
  BY <1>1, <1>2 DEF IInv, InUse, Entered, auth, history
<1>4. calls[s].name \notin Foreground
  BY <1>1, CallAt DEF Good, PointsOf, Foreground, Background
<1>5. (Clean' => Clean) /\ (slips' = {} => slips = {})
  BY <1>1 DEF Clean, history
<1> QED BY <1>1, <1>3, <1>4, <1>5, EndStep DEF history

LEMMA RetryDueStep == ASSUME IInv, NEW s \in Slots, RetryDue(s) PROVE IInv'
<1>1. PICK x \in {None, Reads(calls[s], "derive")} :
         /\ calls[s] # None /\ calls[s].at = "timer"
         /\ calls' = [calls EXCEPT ![s] = x]
         /\ x # None => calls[s].valid
         /\ UNCHANGED << stored, cache, pending, auth, history >>
  BY DEF RetryDue, At, IInv, CallsGood
<1>2. calls[s].name = "retry" /\ calls[s] \in Call /\ s \notin Waited
  BY <1>1, CallAt DEF Good, PointsOf, Foreground, Background
<1>3. ASSUME x # None
      PROVE  Is(x, "retry", "derive", calls[s].phrase) /\ Good(x, Entered)
  <2>1. calls[s].phrase \in Entered
    BY <1>1, <1>3, CallAt DEF Good
  <2>2. "derive" \in PointsOf(calls[s].name)
    BY <1>2 DEF PointsOf
  <2> QED BY <1>1, <1>2, <1>3, <2>1, <2>2, ReadsGood DEF IInv
<1>4. x \in OrNone(Call) /\ (x # None => x.name \notin Foreground)
  BY <1>3 DEF Is, Foreground
<1>5. (Clean' => Clean) /\ (slips' = {} => slips = {}) /\ slips' \subseteq Slips
  BY <1>1 DEF Clean, history, IInv, InUse
<1>6. CallsGood' /\ Session'
  BY <1>1, <1>2, <1>3, <1>4, <1>5, JobStep DEF stored, history
<1> QED BY <1>1, <1>5, <1>6, SameUse DEF IInv, history

\* A job is started with the cached phrase.
LEMMA EnsureStep ==
    ASSUME IInv, NEW c \in Coins, Ensure(c) \/ LoadSnapshot(c) PROVE IInv'
<1> DEFINE f(name) == Fresh(name, name, cache)
           started(name, x) ==
             /\ Starts(calls, x)
             /\ x \in Call /\ x.name = name /\ x.at = name /\ x.phrase = cache
             /\ x.read = NoAddresses
<1>1. /\ cache \in Entered /\ cache \in OrNone(Phrases) /\ meta \in OrNone(Phrases)
  BY DEF IInv, InUse, Entered
<1>2. \A name \in {"ensure", "snapshot"} :
         Is(f(name), name, name, cache) /\ f(name).read = NoAddresses
  <2> SUFFICES ASSUME NEW name \in {"ensure", "snapshot"}
               PROVE  Is(f(name), name, name, cache) /\ f(name).read = NoAddresses
    OBVIOUS
  <2>1. name \in Foreground \cup Background
    BY DEF Background
  <2>2. name \in Points
    BY DEF Points
  <2> QED BY <1>1, <2>1, <2>2, FreshIs
<1> HIDE DEF f
<1>3. \E name \in {"ensure", "snapshot"} : \E x : started(name, x)
  <2>1. CASE Ensure(c)
    <3> DEFINE x == [f("ensure") EXCEPT !.coin = c, !.valid = TRUE]
    <3>1. Starts(calls, x)
      BY <2>1 DEF Ensure, f
    <3>2. /\ x \in Call /\ x.name = "ensure" /\ x.at = "ensure" /\ x.phrase = cache
          /\ x.read = NoAddresses
      BY <1>2 DEF Is, Call
    <3> QED BY <3>1, <3>2
  <2>2. CASE LoadSnapshot(c)
    <3> DEFINE x == [f("snapshot") EXCEPT !.coin = c, !.scope = meta]
    <3>1. Starts(calls, x)
      BY <2>2 DEF LoadSnapshot, f
    <3>2. /\ x \in Call /\ x.name = "snapshot" /\ x.at = "snapshot" /\ x.phrase = cache
          /\ x.read = NoAddresses
      BY <1>1, <1>2 DEF Is, Call
    <3> QED BY <3>1, <3>2
  <2> QED BY <2>1, <2>2
<1>4. PICK name \in {"ensure", "snapshot"} : \E x : started(name, x)
  BY <1>3
<1>5. PICK x : started(name, x)
  BY <1>4
<1>6. UNCHANGED << stored, cache, pending, auth, history >>
  BY DEF Ensure, LoadSnapshot
<1>7. PICK t \in Slots : calls[t] = None /\ calls' = [calls EXCEPT ![t] = x]
  BY <1>5 DEF Starts
<1>8. Good(x, Entered) /\ x.name \notin Foreground
  BY <1>1, <1>5 DEF Good, PointsOf, Foreground, NoAddresses, Entered
<1>9. t \notin Waited
  BY <1>7 DEF Waited, Active
<1>10. (Clean' => Clean) /\ (slips' = {} => slips = {}) /\ slips' \subseteq Slips
  BY <1>6 DEF Clean, history, IInv, InUse
<1>11. CallsGood' /\ Session'
  BY <1>5, <1>6, <1>7, <1>8, <1>9, <1>10, JobStep DEF stored, history
<1> QED BY <1>6, <1>10, <1>11, SameUse DEF IInv, history

\* The auth store takes a phrase, and maybe leaves a refresh behind.
LEMMA TakesStep ==
    ASSUME IInv, NEW s \in Slots, calls[s] # None, calls[s].at \in {"settle", "recall"},
           NEW phrase \in Entered, cache' \in Entered, Takes(s, phrase),
           Clean => /\ calls[s].at = "settle" /\ cache' = cache
                    /\ phrase = calls[s].phrase
    PROVE  IInv'
<1>1. /\ sessionMnemonic' = phrase
      /\ isUnlocked' = (isUnlocked /\ calls[s].name = "unlock")
      /\ generatedSeed' = IF calls[s].name = "restore" THEN None ELSE generatedSeed
      /\ UNCHANGED << stored, pending, history >>
  BY DEF Takes
<1>2. calls[s].name \in {"unlock", "restore", "finalize"}
  BY CallAt DEF Good, PointsOf, Foreground, Background
<1>3. /\ calls[s].phrase \in Entered /\ calls[s].phrase \in OrNone(Phrases)
      /\ calls \in [Slots -> OrNone(Call)]
      /\ Clean => Waited \subseteq {s} /\ Knows(calls[s])
  BY <1>2, CallAt, AloneAt DEF Foreground, InSettings, IInv, CallsGood
<1>4. cache' \in OrNone(Phrases)
  BY DEF Entered, IInv, InUse
<1>5. InUse' /\ Entered' = Entered
  <2>1. isUnlocked' \in BOOLEAN
    BY <1>1
  <2>2. generatedSeed' \in Entered
    BY <1>1 DEF IInv, InUse, Entered
  <2> QED BY <1>1, <2>1, <2>2 DEF IInv, InUse, Entered, stored, history
<1> DEFINE x == MovesTo(calls[s], "load")
           f == Fresh("refresh", "privacy", cache')
           y == Reads(f, "privacy")
           next == [calls EXCEPT ![s] = x]
<1>6. calls' = next \/ Spawns(next, y)
  BY DEF Takes
<1>7. Is(x, calls[s].name, "load", calls[s].phrase) /\ Good(x, Entered)
  <2>1. "load" \in PointsOf(calls[s].name) /\ calls[s].name \in Foreground
    BY <1>2 DEF PointsOf, Foreground
  <2> QED BY <1>3, <2>1, FreshGood DEF MovesTo
<1>8. Is(f, "refresh", "privacy", cache')
  BY <1>4, FreshIs DEF Background, Points
<1> HIDE DEF f
<1>9. Is(y, "refresh", "privacy", cache') /\ Good(y, Entered)
  <2>1. f \in Call /\ "privacy" \in PointsOf(f.name) /\ f.phrase \in Entered
    BY <1>8 DEF Is, PointsOf
  <2> QED BY <1>8, <2>1, ReadsGood DEF IInv, Is
<1> HIDE DEF x, y
<1>10. Stepped(s, next) /\ next[s] = x
  <2>1. Stepped(s, next)
    BY <1>5, <1>7, OneStep DEF IInv, Is
  <2> QED BY <1>3, <2>1
<1> HIDE DEF next
<1>11. Stepped(s, calls') /\ calls'[s] = x
  <2>1. y \in Call /\ y.name \notin Foreground /\ next[s] # None
    BY <1>7, <1>9, <1>10 DEF Is, Foreground
  <2> QED BY <1>5, <1>6, <1>9, <1>10, <2>1, OneMore
<1>12. Clean' <=> Clean
  BY <1>1 DEF Clean, history
<1>13. ASSUME Clean PROVE Knows(calls[s])' /\ Open' /\ Beside(s)
  <2>1. /\ ~ isUnlocked /\ Waited \subseteq {s} /\ Held(calls[s])
        /\ calls[s].name \in {"unlock", "restore"} => generatedSeed = None
        /\ calls[s].name = "unlock" => calls[s].phrase = meta
        /\ calls[s].name = "finalize" => generatedSeed # None /\ calls[s].phrase = generatedSeed
    BY <1>2, <1>3, <1>13 DEF Knows
  <2>2. ~ isUnlocked'
    BY <1>1, <2>1
  <2>3. Held(calls[s])'
    BY <1>1, <1>7, <1>11, <1>13, <2>1 DEF Held, Is, stored
  <2>4. /\ calls'[s].name = calls[s].name /\ calls'[s].at = "load"
        /\ calls'[s].phrase = calls[s].phrase
    BY <1>7, <1>11 DEF Is
  <2>5. Knows(calls[s])'
    BY <1>1, <1>2, <2>1, <2>2, <2>3, <2>4 DEF Knows, Held, InSettings, stored
  <2> QED BY <2>1, <2>2, <2>5 DEF Open, Beside
<1>14. calls'[s] # None /\ calls'[s].name \in Foreground
  BY <1>2, <1>7, <1>11 DEF Is, Foreground
<1> QED BY <1>5, <1>11, <1>12, <1>13, <1>14, SessionAfter DEF IInv

LEMMA SettledStep == ASSUME IInv, NEW s \in Slots, Settled(s) PROVE IInv'
<1> DEFINE asks == calls[s].name # "finalize" /\ cache = None /\ meta # None
           taken == IF calls[s].name = "finalize" THEN calls[s].phrase ELSE cache
<1>1. /\ calls[s] # None /\ calls[s].at = "settle" /\ cache' = cache
      /\ \/ Takes(s, taken)
         \/ /\ asks
            /\ calls' = [calls EXCEPT ![s] = Fresh(calls[s].name, "recall", meta)]
            /\ UNCHANGED << stored, pending, auth, history >>
  BY DEF Settled, At, IInv, CallsGood
<1>2. calls[s].name \in {"unlock", "restore", "finalize"}
  BY <1>1, CallAt DEF Good, PointsOf, Foreground, Background
<1>3. calls[s].phrase \in Entered /\ cache \in Entered /\ meta \in Entered /\ meta \in OrNone(Phrases)
  BY <1>1, <1>2, CallAt DEF Foreground, IInv, InUse, Entered
<1>4. Clean => Waited \subseteq {s} /\ cache = calls[s].phrase /\ calls[s].phrase # None
  <2>1. Clean => Waited \subseteq {s} /\ Knows(calls[s])
    BY <1>1, <1>2, AloneAt DEF Foreground, InSettings
  <2> QED BY <1>1, <1>2, <2>1 DEF Knows, Held
<1>5. CASE Takes(s, taken)
  <2>1. taken \in Entered /\ (Clean => taken = calls[s].phrase)
    BY <1>3, <1>4
  <2> HIDE DEF taken
  <2> QED BY <1>1, <1>3, <1>5, <2>1, TakesStep
<1>6. CASE /\ asks
           /\ calls' = [calls EXCEPT ![s] = Fresh(calls[s].name, "recall", meta)]
           /\ UNCHANGED << stored, pending, auth, history >>
  <2> DEFINE x == Fresh(calls[s].name, "recall", meta)
  <2>1. ~ Clean /\ calls[s].name \in {"unlock", "restore"}
    BY <1>2, <1>4, <1>6
  <2>2. Is(x, calls[s].name, "recall", meta) /\ Good(x, Entered)
    <3>1. calls[s].name \in Foreground /\ "recall" \in PointsOf(calls[s].name)
      BY <2>1 DEF Foreground, PointsOf
    <3> QED BY <1>3, <3>1, FreshGood
  <2>3. InUse' /\ Entered' = Entered
    BY <1>1, <1>6, SameUse DEF IInv, InUse, history
  <2>4. calls' = [calls EXCEPT ![s] = x]
    BY <1>6
  <2> HIDE DEF x
  <2>5. Stepped(s, calls') /\ calls'[s] = x
    BY <2>2, <2>3, <2>4, StepTo DEF Is, IInv
  <2>6. calls'[s] # None /\ calls'[s].name \in Foreground
    BY <2>1, <2>2, <2>5 DEF Is, Foreground
  <2>7. ~ Clean'
    BY <1>6, <2>1 DEF Clean, history
  <2> QED BY <2>3, <2>5, <2>6, <2>7, SessionAfter DEF IInv
<1> QED BY <1>1, <1>5, <1>6

LEMMA RecalledStep == ASSUME IInv, NEW s \in Slots, Recalled(s) PROVE IInv'
<1>1. /\ calls[s] # None /\ calls[s].at = "recall"
      /\ \/ cache' = calls[s].phrase /\ Takes(s, calls[s].phrase)
         \/ cache' = cache /\ Takes(s, None)
  BY DEF Recalled, At
<1>2. calls[s].name \in {"unlock", "restore"}
  BY <1>1, CallAt DEF Good, PointsOf, Foreground, Background
<1>3. calls[s].phrase \in Entered /\ None \in Entered /\ cache \in Entered
  BY <1>1, <1>2, CallAt DEF Foreground, Entered, IInv, InUse
<1>4. ~ Clean
  <2>1. Clean => Knows(calls[s])
    BY <1>1, <1>2, AloneAt DEF Foreground, InSettings
  <2> QED BY <1>1, <1>2, <2>1 DEF Knows, Held
<1> QED BY <1>1, <1>3, <1>4, TakesStep

LEMMA RetryGood ==
    ASSUME NEW phrase \in OrNone(Phrases), phrase \in Entered
    PROVE  Is(Retry(phrase), "retry", "timer", phrase) /\ Good(Retry(phrase), Entered)
<1> DEFINE f == Fresh("retry", "timer", phrase)
           y == [f EXCEPT !.valid = TRUE]
<1>1. Is(f, "retry", "timer", phrase) /\ f.read = NoAddresses
  BY FreshIs DEF Background, Points
<1> HIDE DEF f
<1>2. y \in Call /\ y.name = "retry" /\ y.at = "timer" /\ y.phrase = phrase /\ y.read = NoAddresses
  BY <1>1 DEF Is, Call
<1>3. y # None /\ Retry(phrase) = y
  BY <1>2 DEF Retry, f
<1> HIDE DEF y
<1>4. Is(y, "retry", "timer", phrase) /\ Good(y, Entered)
  BY <1>2, <1>3 DEF Is, Good, PointsOf, NoAddresses, Entered
<1> QED BY <1>3, <1>4

\* Unlock, restore, setup and change go on, and leave a retry behind.
LEMMA DerivedWithRetry ==
    ASSUME IInv, NEW s \in Slots, calls[s] # None, calls[s].at = "derive",
           NEW point, NEW phrase \in Entered, NEW x,
           \/ calls[s].name \in {"unlock", "finalize"} /\ point = "settle"
           \/ calls[s].name = "restore" /\ point = "secret"
           \/ calls[s].name = "change" /\ point = "decrypt",
           Is(x, calls[s].name, point, phrase), x.valid = FALSE,
           Clean => phrase = calls[s].phrase,
           Spawns([calls EXCEPT ![s] = x], Retry(calls[s].phrase)),
           UNCHANGED << meta, cache, pending, auth, history >>, InUse'
    PROVE  IInv'
<1>1. /\ calls[s].phrase \in Entered
      /\ calls[s].phrase \in OrNone(Phrases) /\ Entered' = Entered
      /\ calls \in [Slots -> OrNone(Call)] /\ phrase \in OrNone(Phrases)
  BY CallAt DEF Foreground, IInv, CallsGood, Entered, InUse, history
<1> DEFINE y == Retry(calls[s].phrase)
           next == [calls EXCEPT ![s] = x]
<1>2. Is(x, calls[s].name, point, phrase) /\ Good(x, Entered)
  <2>1. point \in PointsOf(calls[s].name)
    BY DEF PointsOf
  <2> QED BY <2>1 DEF Is, Good
<1>3. Is(y, "retry", "timer", calls[s].phrase) /\ Good(y, Entered)
  BY <1>1, RetryGood
<1> HIDE DEF y
<1>4. Stepped(s, next) /\ next[s] = x
  <2>1. Stepped(s, next)
    BY <1>1, <1>2, OneStep DEF IInv, Is
  <2> QED BY <1>1, <2>1
<1>5. Spawns(next, y)
  BY DEF y
<1> HIDE DEF next
<1>6. Stepped(s, calls') /\ calls'[s] = x
  <2>1. y \in Call /\ y.name \notin Foreground /\ next[s] # None
    BY <1>2, <1>3, <1>4 DEF Is, Foreground
  <2> QED BY <1>1, <1>3, <1>4, <1>5, <2>1, OneMore
<1>7. Clean' <=> Clean
  BY DEF Clean, history
<1>8. CASE calls[s].name = "change"
  <2>1. ~ Clean \/ phrase = calls[s].phrase
    OBVIOUS
  <2>2. Clean => /\ \A t \in Waited : calls[t].name \in InSettings
                 /\ isUnlocked /\ calls[s].phrase = meta
                 /\ meta # None /\ cache = meta /\ sessionMnemonic = meta /\ generatedSeed = None
    BY <1>8, InSettingsAt DEF InSettings
  <2>3. calls'[s] # None /\ calls'[s].name = "change" /\ calls'[s].phrase = phrase
    BY <1>2, <1>6, <1>8 DEF Is
  <2>4. Clean => Knows(calls[s])' /\ Open' /\ Beside(s) /\ isUnlocked'
    BY <2>1, <2>2, <2>3 DEF Knows, Open, Beside, InSettings, auth
  <2>5. calls'[s].name \in Foreground
    BY <2>3 DEF Foreground
  <2> QED BY <1>6, <1>7, <2>3, <2>4, <2>5, SessionAfter DEF IInv
<1>9. CASE calls[s].name \in {"unlock", "finalize", "restore"}
  <2>1. Clean => Waited \subseteq {s} /\ Knows(calls[s]) /\ phrase = calls[s].phrase
    BY <1>9, AloneAt DEF Foreground, InSettings
  <2>2. Clean => Knows(calls[s])'
    BY <1>2, <1>6, <1>9, <2>1 DEF Knows, Held, NoPhrase, Is, InSettings, auth
  <2>3. Clean => Open' /\ Beside(s)
    BY <2>1 DEF IInv, Session, Open, Beside, auth
  <2>4. calls'[s] # None /\ calls'[s].name \in Foreground
    BY <1>2, <1>6, <1>9 DEF Is, Foreground
  <2> QED BY <1>6, <1>7, <2>2, <2>3, <2>4, SessionAfter DEF IInv
<1> QED BY <1>8, <1>9

LEMMA DerivedStep == ASSUME IInv, NEW s \in Slots, Derived(s) PROVE IInv'
<1> DEFINE c == calls[s]
           goes(x) == Spawns([calls EXCEPT ![s] = x], Retry(c.phrase))
<1>1. c # None /\ c.at = "derive" /\ UNCHANGED << meta, cache, pending, auth, history >>
  BY DEF Derived, At
<1>2. addresses' \in [Coins -> Entered]
  <2>1. PICK done : addresses' = IF c.valid /\ done # {} THEN Overlay(c.read, done, c.phrase)
                                 ELSE addresses
    BY DEF Derived
  <2> QED BY <1>1, <2>1, WritesUsed DEF IInv, InUse
<1>3. InUse' /\ Entered' = Entered
  BY <1>1, <1>2 DEF IInv, InUse, Entered, auth, history
<1>4. \/ c.name \in {"unlock", "finalize"} /\ goes(MovesTo(c, "settle"))
      \/ c.name = "restore" /\ goes(MovesTo(c, "secret"))
      \/ /\ c.name = "change"
         /\ Spawns([[calls EXCEPT ![s] = MovesTo(c, "decrypt")] EXCEPT ![s].phrase = meta],
                   Retry(c.phrase))
      \/ /\ c.name = "resave"
         /\ calls' = [calls EXCEPT ![s] =
               IF c.valid THEN [Reads(c, "privacy") EXCEPT !.read = addresses'] ELSE None]
      \/ c.name = "retry" /\ calls' = [calls EXCEPT ![s] = None]
  BY DEF Derived
<1>5. c.name \in Foreground => c.phrase \in Entered
  BY <1>1, CallAt
<1> HIDE DEF c
<1>6. CASE c.name \in {"unlock", "finalize"} /\ goes(MovesTo(c, "settle"))
  <2>1. /\ Is(MovesTo(c, "settle"), c.name, "settle", c.phrase)
        /\ MovesTo(c, "settle").valid = FALSE
    BY <1>1, <1>6, CallAt, FreshIs DEF c, MovesTo, Foreground, Points
  <2> QED BY <1>1, <1>3, <1>5, <1>6, <2>1, DerivedWithRetry DEF c, Foreground
<1>7. CASE c.name = "restore" /\ goes(MovesTo(c, "secret"))
  <2>1. /\ Is(MovesTo(c, "secret"), c.name, "secret", c.phrase)
        /\ MovesTo(c, "secret").valid = FALSE
    BY <1>1, <1>7, CallAt, FreshIs DEF c, MovesTo, Foreground, Points
  <2> QED BY <1>1, <1>3, <1>5, <1>7, <2>1, DerivedWithRetry DEF c, Foreground
<1>8. CASE /\ c.name = "change"
           /\ Spawns([[calls EXCEPT ![s] = MovesTo(c, "decrypt")] EXCEPT ![s].phrase = meta],
                     Retry(c.phrase))
  <2>1. /\ Clean => meta = c.phrase
        /\ c.phrase \in OrNone(Phrases) /\ meta \in Entered /\ meta \in OrNone(Phrases)
        /\ calls \in [Slots -> OrNone(Call)]
    BY <1>1, <1>8, CallAt, InSettingsAt
       DEF c, InSettings, Foreground, IInv, InUse, Entered, CallsGood
  <2> DEFINE m == MovesTo(c, "decrypt")
             x == [m EXCEPT !.phrase = meta]
  <2>2. Is(m, "change", "decrypt", c.phrase) /\ m.valid = FALSE
    <3>1. "change" \in Foreground \cup Background /\ "decrypt" \in Points
      BY DEF Foreground, Points
    <3> QED BY <1>8, <2>1, <3>1, FreshIs DEF MovesTo
  <2> HIDE DEF m
  <2>3. x \in Call /\ x.name = "change" /\ x.at = "decrypt" /\ x.phrase = meta /\ x.valid = FALSE
    BY <2>1, <2>2 DEF Is, Call
  <2>4. [[calls EXCEPT ![s] = m] EXCEPT ![s].phrase = meta] = [calls EXCEPT ![s] = x]
    BY <2>1
  <2> HIDE DEF x
  <2>5. Is(x, "change", "decrypt", meta)
    BY <2>3 DEF Is
  <2>6. goes(x)
    BY <1>8, <2>4 DEF m
  <2>7. /\ calls[s] # None /\ calls[s].at = "derive" /\ calls[s].name = "change"
        /\ Is(x, calls[s].name, "decrypt", meta)
        /\ Clean => meta = calls[s].phrase
        /\ Spawns([calls EXCEPT ![s] = x], Retry(calls[s].phrase))
    BY <1>1, <1>8, <2>1, <2>5, <2>6 DEF c
  <2> HIDE DEF goes
  <2>8. meta \in Entered /\ x.valid = FALSE
    BY <2>1, <2>3
  <2> QED BY <1>1, <1>3, <2>7, <2>8, DerivedWithRetry
<1>9. CASE /\ c.name = "resave"
           /\ calls' = [calls EXCEPT ![s] =
                 IF c.valid THEN [Reads(c, "privacy") EXCEPT !.read = addresses'] ELSE None]
  <2>1. c.phrase \in Entered /\ c \in Call
    BY <1>1, <1>9, CallAt DEF c, Foreground
  <2> DEFINE r == Reads(c, "privacy")
             w == [r EXCEPT !.read = addresses']
             x == IF c.valid THEN w ELSE None
  <2>2. Is(r, "resave", "privacy", c.phrase) /\ Good(r, Entered)
    BY <1>9, <2>1, ReadsGood DEF IInv, PointsOf
  <2>3. addresses' \in Addresses /\ \A a \in Coins : addresses'[a] \in Entered
    BY <1>2 DEF Addresses, Entered, IInv, InUse
  <2> HIDE DEF r
  <2>4. /\ w \in Call /\ w.name = "resave" /\ w.at = "privacy" /\ w.phrase = c.phrase
        /\ w.read = addresses'
    BY <2>2, <2>3 DEF Is, Call
  <2>5. w # None
    BY <2>4
  <2> HIDE DEF w
  <2>6. Is(w, "resave", "privacy", c.phrase) /\ Good(w, Entered)
    BY <2>1, <2>3, <2>4, <2>5 DEF Is, Good, PointsOf
  <2>7. calls' = [calls EXCEPT ![s] = x]
    BY <1>9 DEF w, r
  <2>8. x \in {w, None}
    OBVIOUS
  <2> HIDE DEF x
  <2>9. Stepped(s, calls') /\ calls'[s] = x
    <3>1. x \in OrNone(Call) /\ (x # None => Good(x, Entered'))
      BY <1>3, <2>6, <2>8 DEF Is
    <3> QED BY <1>3, <2>7, <3>1, StepTo DEF IInv
  <2>10. calls'[s] # None => calls'[s].name \in InSettings /\ calls'[s].phrase = calls[s].phrase
    BY <2>6, <2>8, <2>9 DEF Is, InSettings, c
  <2>11. (Clean' <=> Clean) /\ calls[s].name \in InSettings
    BY <1>1, <1>9 DEF Clean, history, c, InSettings
  <2> QED BY <1>1, <1>3, <2>9, <2>10, <2>11, SettingsStep DEF IInv, c
<1>10. CASE c.name = "retry" /\ calls' = [calls EXCEPT ![s] = None]
  <2>1. (Clean' <=> Clean) /\ (slips' = {} => slips = {}) /\ calls[s].name \notin Foreground
    BY <1>1, <1>10 DEF Clean, history, c, Foreground
  <2> QED BY <1>1, <1>3, <1>10, <2>1, EndStep DEF c, history
<1> QED BY <1>4, <1>6, <1>7, <1>8, <1>9, <1>10


-----------------------------------------------------------------------------
(* What begins, and what ends, a session.                                   *)

LEMMA FinalizeStep == ASSUME IInv, FinalizeWalletSetup PROVE IInv'
<1> DEFINE call(point) == Fresh("finalize", point, generatedSeed)
<1>1. /\ generatedSeed # None /\ (Left \/ Quiet) /\ sessionMnemonic' = generatedSeed
      /\ UNCHANGED << stored, pending, isUnlocked, generatedSeed, entered >>
      /\ \/ /\ pending = generatedSeed
            /\ Starts(calls, call("secret"))
            /\ UNCHANGED << cache, slips >>
         \/ /\ pending = None /\ meta # None
            /\ cache' = generatedSeed
            /\ Starts(calls, Reads(call("derive"), "derive"))
            /\ slips' = slips \cup (IF meta = generatedSeed THEN {} ELSE {"unsaved"})
         \/ /\ pending # generatedSeed /\ (pending # None \/ meta = None)
            /\ UNCHANGED << cache, calls, slips >>
  BY DEF FinalizeWalletSetup
<1>2. /\ generatedSeed \in Entered /\ generatedSeed \in OrNone(Phrases)
      /\ cache' \in Entered /\ slips' \subseteq Slips
  BY <1>1 DEF IInv, InUse, Entered, Slips
<1>3. InUse' /\ Entered' = Entered
  BY <1>1, <1>2 DEF IInv, InUse, Entered, stored
<1>4. Clean => Waited = {} /\ ~ isUnlocked
  BY <1>1, CleanNotLeft DEF Quiet, IInv, Session, Open
<1>5. \A point \in {"secret", "derive"} :
         Is(call(point), "finalize", point, generatedSeed) /\ Good(call(point), Entered)
  BY <1>2, FreshGood DEF Foreground, PointsOf
<1> HIDE DEF call
<1>6. CASE /\ pending = generatedSeed
           /\ Starts(calls, call("secret"))
           /\ UNCHANGED << cache, slips >>
  <2> DEFINE x == call("secret")
  <2>1. PICK t \in Slots : calls' = [calls EXCEPT ![t] = x]
    BY <1>6 DEF Starts
  <2>2. Is(x, "finalize", "secret", generatedSeed) /\ Good(x, Entered)
    BY <1>5
  <2> HIDE DEF x
  <2>3. Stepped(t, calls') /\ calls'[t] = x
    BY <1>3, <2>1, <2>2, StepTo DEF Is, IInv
  <2>4. Clean' <=> Clean
    BY <1>6 DEF Clean
  <2>5. Clean => Knows(calls[t])' /\ Open' /\ Beside(t)
    BY <1>1, <1>4, <2>2, <2>3 DEF Knows, Is, Open, Beside, InSettings
  <2>6. calls'[t] # None /\ calls'[t].name \in Foreground
    BY <2>2, <2>3 DEF Is, Foreground
  <2> QED BY <1>3, <2>3, <2>4, <2>5, <2>6, SessionAfter DEF IInv
<1>7. CASE /\ pending = None /\ meta # None
           /\ cache' = generatedSeed
           /\ Starts(calls, Reads(call("derive"), "derive"))
           /\ slips' = slips \cup (IF meta = generatedSeed THEN {} ELSE {"unsaved"})
  <2> DEFINE x == Reads(call("derive"), "derive")
  <2>1. PICK t \in Slots : calls' = [calls EXCEPT ![t] = x]
    BY <1>7 DEF Starts
  <2>2. Is(x, "finalize", "derive", generatedSeed) /\ Good(x, Entered)
    <3>1. Is(call("derive"), "finalize", "derive", generatedSeed)
      BY <1>5
    <3>2. call("derive") \in Call /\ "derive" \in PointsOf(call("derive").name)
          /\ call("derive").phrase \in Entered
      BY <1>2, <3>1 DEF Is, PointsOf
    <3> QED BY <3>1, <3>2, ReadsGood DEF IInv, Is
  <2> HIDE DEF x
  <2>3. Stepped(t, calls') /\ calls'[t] = x
    BY <1>3, <2>1, <2>2, StepTo DEF Is, IInv
  <2>4. Clean' => Clean /\ meta = generatedSeed
    BY <1>7 DEF Clean
  <2>5. Clean' => Knows(calls[t])' /\ Open' /\ Beside(t)
    BY <1>1, <1>4, <1>7, <2>2, <2>3, <2>4
       DEF Knows, Held, Is, Open, Beside, InSettings, stored
  <2>6. calls'[t] # None /\ calls'[t].name \in Foreground
    BY <2>2, <2>3 DEF Is, Foreground
  <2> QED BY <1>3, <2>3, <2>4, <2>5, <2>6, SessionAfter DEF IInv
<1>8. CASE UNCHANGED << cache, calls, slips >>
  <2>1. CallsGood' /\ (Clean' <=> Clean) /\ Waited' = Waited
    BY <1>3, <1>8 DEF IInv, CallsGood, Active, Clean, Waited
  <2>2. Clean => Waited' = {} /\ ~ isUnlocked' /\ generatedSeed' # None
    BY <1>1, <1>4, <2>1
  <2>3. Session'
    BY <2>1, <2>2 DEF Session, Open, LockForgets
  <2> QED BY <1>3, <2>1, <2>3 DEF IInv
<1> QED BY <1>1, <1>6, <1>7, <1>8

LEMMA RevealStep == ASSUME IInv, Reveal PROVE IInv'
<1>1. /\ isUnlocked /\ Starts(calls, Fresh("reveal", "decrypt", meta))
      /\ UNCHANGED << stored, cache, pending, auth, history >>
  BY DEF Reveal
<1>2. InUse' /\ Entered' = Entered /\ meta \in Entered /\ meta \in OrNone(Phrases)
  BY <1>1, SameUse DEF IInv, InUse, Entered, history
<1> DEFINE x == Fresh("reveal", "decrypt", meta)
<1>3. Is(x, "reveal", "decrypt", meta) /\ Good(x, Entered)
  BY <1>2, FreshGood DEF Foreground, PointsOf
<1>4. PICK t \in Slots : calls' = [calls EXCEPT ![t] = x]
  BY <1>1 DEF Starts
<1> HIDE DEF x
<1>5. Stepped(t, calls') /\ calls'[t] = x
  BY <1>2, <1>3, <1>4, StepTo DEF Is, IInv
<1>6. calls'[t] # None /\ calls'[t].name \in Foreground
  BY <1>3, <1>5 DEF Is, Foreground
<1>7. ASSUME Clean' PROVE Clean /\ Beside(t) /\ Knows(calls[t])' /\ Open' /\ isUnlocked'
  <2>1. Clean /\ isUnlocked' /\ meta' = meta
    BY <1>1, <1>7 DEF Clean, history, auth, stored
  <2>2. Open'
    BY <1>1, <2>1 DEF IInv, Session, Open, stored, auth
  <2>3. \A u \in Waited : calls[u].name \in InSettings
    BY <1>1, <2>1, WhenOpen
  <2>4. Knows(calls[t])' /\ Beside(t)
    BY <1>3, <1>5, <2>1, <2>3 DEF Knows, Is, InSettings, Beside
  <2> QED BY <2>1, <2>2, <2>4
<1> QED BY <1>2, <1>5, <1>6, <1>7, SessionAfter DEF IInv

LEMMA ReplaceStep ==
    ASSUME IInv, NEW name \in {"restore", "create"}, NEW phrase \in OrNone(Phrases),
           Replace(name, phrase), entered' \subseteq Phrases, Entered \subseteq Entered',
           phrase \in Entered', name = "restore" => phrase # None
    PROVE  IInv'
<1>1. /\ cache' = None /\ sessionMnemonic' = None /\ isUnlocked' = FALSE
      /\ Starts(Bump(calls), Fresh(name, "reset", phrase))
      /\ UNCHANGED << stored, pending, generatedSeed >>
      /\ slips' = IF Quiet /\ generatedSeed' = None THEN {} ELSE {"overtaken"}
  BY DEF Replace, Parts
<1>2. InUse'
  <2>1. slips' \subseteq Slips /\ None \in Entered'
    BY <1>1 DEF Slips, Entered
  <2> QED BY <1>1, <2>1 DEF IInv, InUse, stored
<1> DEFINE x == Fresh(name, "reset", phrase)
<1>3. Is(x, name, "reset", phrase) /\ Good(x, Entered')
  BY FreshGood DEF Foreground, PointsOf
<1>4. PICK t \in Slots : calls' = [Bump(calls) EXCEPT ![t] = x]
  BY <1>1 DEF Starts
<1> HIDE DEF x
<1>5. Stepped(t, calls') /\ calls'[t] = x
  BY <1>3, <1>4, StepTo DEF Is, IInv
<1>6. Clean' => Waited = {} /\ generatedSeed' = None
  BY <1>1 DEF Clean, Quiet
<1>7. Clean' => Knows(calls[t])' /\ Open' /\ Beside(t)
  BY <1>1, <1>3, <1>5, <1>6 DEF Knows, NoPhrase, Is, Open, Beside, InSettings
<1>8. calls'[t] # None /\ calls'[t].name \in Foreground
  BY <1>3, <1>5 DEF Is, Foreground
<1> QED BY <1>2, <1>5, <1>6, <1>7, <1>8, SessionAfter DEF IInv

\* Bumped calls keep their places, and may write nothing.
LEMMA BumpedGood ==
    ASSUME IInv, calls' = Bump(calls),
           \A s \in Waited : calls[s].phrase \in Entered'
    PROVE  CallsGood' /\ Waited' = Waited
<1>1. /\ calls \in [Slots -> OrNone(Call)]
      /\ \A s \in Slots : calls[s] # None => Good(calls[s], Entered)
  BY DEF IInv, CallsGood, Active
<1>2. /\ calls' \in [Slots -> OrNone(Call)]
      /\ \A s \in Slots : calls[s] = None <=> calls'[s] = None
      /\ \A s \in Slots : calls[s] # None =>
            /\ Is(calls'[s], calls[s].name, calls[s].at, calls[s].phrase)
            /\ calls'[s].valid = FALSE
  BY <1>1, BumpIs
<1>3. Waited' = Waited
  BY <1>2 DEF Waited, Active, Is
<1>4. ASSUME NEW s \in Slots, calls'[s] # None PROVE Good(calls'[s], Entered')
  BY <1>1, <1>2, <1>4 DEF Good, Is, Waited, Active
<1> QED BY <1>2, <1>3, <1>4 DEF CallsGood, Active

\* The wallet is locked or removed, with no page's call or with the slip noted.
LEMMA PartsStep ==
    ASSUME IInv, calls' = Bump(calls), Parts, NoPhrase', ~ isUnlocked', InUse',
           \A s \in Waited : calls[s].phrase \in Entered'
    PROVE  IInv'
<1>1. CallsGood' /\ Waited' = Waited
  BY BumpedGood
<1>2. Clean' => Waited = {}
  BY DEF Parts, Clean, Quiet
<1>3. Session'
  BY <1>1, <1>2 DEF Session, Open, LockForgets, NoPhrase
<1> QED BY <1>1, <1>3 DEF IInv

LEMMA SlipsAfter == ASSUME Parts PROVE slips' \subseteq Slips
  BY DEF Parts, Slips

LEMMA LockStep == ASSUME IInv, Lock PROVE IInv'
<1>1. /\ cache' = None /\ sessionMnemonic' = None /\ isUnlocked' = FALSE
      /\ calls' = Bump(calls) /\ Parts
      /\ UNCHANGED << stored, pending, generatedSeed, entered >>
  BY DEF Lock
<1>2. InUse' /\ Entered' = Entered
  BY <1>1, SlipsAfter DEF IInv, InUse, Entered, stored
<1>3. \A s \in Waited : calls[s].phrase \in Entered'
  BY <1>2, CallAt DEF Waited, Active
<1>4. NoPhrase' /\ ~ isUnlocked'
  BY <1>1 DEF NoPhrase
<1> QED BY <1>1, <1>2, <1>3, <1>4, PartsStep

LEMMA ForgetStep == ASSUME IInv, Forget PROVE IInv'
<1>1. /\ meta' = None /\ addresses' = NoAddresses /\ cache' = None /\ pending' = None
      /\ sessionMnemonic' = None /\ isUnlocked' = FALSE /\ generatedSeed' = None
      /\ calls' = Bump(calls) /\ Parts
      /\ entered' = {calls[s].phrase : s \in Waited} \ {None}
  BY DEF Forget
<1>2. ASSUME NEW s \in Waited
      PROVE  calls[s].phrase \in OrNone(Phrases) /\ calls[s].phrase \in Entered'
  BY <1>1, CallAt DEF Waited, Active, Entered
<1>3. entered' \subseteq Phrases
  BY <1>1, <1>2
<1>4. InUse'
  <2>1. None \in Entered' /\ addresses' \in [Coins -> Entered']
    BY <1>1 DEF Entered, NoAddresses
  <2> QED BY <1>1, <1>3, <2>1, SlipsAfter DEF InUse
<1>5. NoPhrase' /\ ~ isUnlocked'
  BY <1>1 DEF NoPhrase
<1> QED BY <1>1, <1>2, <1>4, <1>5, PartsStep

LEMMA RestartStep == ASSUME IInv, Restart PROVE IInv'
<1>1. /\ cache' = None /\ pending' = None /\ sessionMnemonic' = None
      /\ isUnlocked' = FALSE /\ generatedSeed' = None
      /\ calls' = [s \in Slots |-> None] /\ slips' = {}
      /\ UNCHANGED << stored, entered >>
  BY DEF Restart
<1>2. InUse'
  BY <1>1 DEF IInv, InUse, Entered, stored
<1>3. CallsGood' /\ Waited' = {}
  BY <1>1 DEF CallsGood, Active, Waited
<1>4. Session'
  BY <1>1, <1>3 DEF Session, Open, LockForgets
<1> QED BY <1>2, <1>3, <1>4 DEF IInv

-----------------------------------------------------------------------------
LEMMA Initially == Init => IInv
<1> SUFFICES ASSUME Init PROVE IInv
  OBVIOUS
<1>1. InUse
  BY DEF Init, InUse, Entered, NoAddresses
<1>2. CallsGood /\ Waited = {}
  BY DEF Init, CallsGood, Active, Waited
<1>3. Session
  BY <1>2 DEF Init, Session, Open, LockForgets
<1> QED BY <1>1, <1>2, <1>3 DEF IInv

LEMMA StutterStep == ASSUME IInv, UNCHANGED vars PROVE IInv'
<1>1. UNCHANGED << stored, cache, pending, auth, calls, slips, entered >>
  BY DEF vars, history
<1>2. InUse' /\ Entered' = Entered
  BY <1>1, SameUse DEF IInv, InUse
<1>3. CallsGood' /\ Waited' = Waited /\ (Clean' <=> Clean) /\ (Quiet' <=> Quiet)
  BY <1>1, <1>2 DEF IInv, CallsGood, Active, Waited, Clean, Quiet
<1>4. Clean => \A t \in Waited' : Knows(calls[t])'
  BY <1>1, <1>3 DEF IInv, Session, Knows, Held, NoPhrase, auth, stored
<1>5. Session'
  BY <1>1, <1>3, <1>4 DEF IInv, Session, Open, LockForgets, auth, stored
<1> QED BY <1>2, <1>3, <1>5 DEF IInv

LEMMA StepKeeps == IInv /\ [Next]_vars => IInv'
<1> SUFFICES ASSUME IInv, [Next]_vars PROVE IInv'
  OBVIOUS
<1>1. CASE UNCHANGED vars
  BY <1>1, StutterStep
<1>2. CASE Unlock
  BY <1>2, UnlockStep
<1>3. CASE Lock
  BY <1>3, LockStep
<1>4. CASE ClearWallet \/ CancelWalletSetup
  BY <1>4, ForgetStep DEF ClearWallet, CancelWalletSetup
<1>5. CASE CreateWallet
  <2>1. Replace("create", None) /\ entered' = entered
    BY <1>5 DEF CreateWallet
  <2>2. entered' \subseteq Phrases /\ Entered \subseteq Entered' /\ None \in Entered'
    BY <2>1 DEF IInv, InUse, Entered
  <2> QED BY <2>1, <2>2, ReplaceStep
<1>6. CASE FinalizeWalletSetup
  BY <1>6, FinalizeStep
<1>7. CASE Reveal
  BY <1>7, RevealStep
<1>8. CASE Restart
  BY <1>8, RestartStep
<1>9. ASSUME NEW p \in Phrases, RestoreWallet(p) PROVE IInv'
  <2>1. Replace("restore", p) /\ entered' = entered \cup {p}
    BY <1>9 DEF RestoreWallet
  <2>2. entered' \subseteq Phrases /\ Entered \subseteq Entered' /\ p \in Entered' /\ p # None
    BY <2>1 DEF IInv, InUse, Entered
  <2> QED BY <2>1, <2>2, ReplaceStep
<1>10. ASSUME NEW c \in Coins, Ensure(c) \/ LoadSnapshot(c) PROVE IInv'
  BY <1>10, EnsureStep
<1>11. ASSUME NEW s \in Slots, Resume(s) PROVE IInv'
  BY <1>11, VerifiedStep, DerivedStep, SettledStep, RecalledStep, LoadedStep,
     PrivacyRefreshedStep, RetryDueStep, EnsuredStep, ResetDoneStep, ValidatedStep,
     SecretStoredStep, SecretFailedStep, DecryptedStep, FailsStep, GeneratedStep DEF Resume
<1> QED
  BY <1>1, <1>2, <1>3, <1>4, <1>5, <1>6, <1>7, <1>8, <1>9, <1>10, <1>11 DEF Next, Coins

LEMMA Remembers == IInv => NothingOfClearedWallet
  BY DEF IInv, InUse, Entered, NothingOfClearedWallet

LEMMA Inductive == Spec => []IInv
  BY Initially, StepKeeps, PTL DEF Spec

(* Every variable keeps its type, so that a call is always at one of the    *)
(* points the handlers of walletService.ts await at.                        *)
THEOREM TypeCorrect == Spec => []TypeOK
  BY TypesOf, Inductive, PTL

(* While a wallet is unlocked it is stored, and both copies of its phrase   *)
(* are there: unless a lock, a removal or a replacement has overtaken a     *)
(* page's call, or the open wallet was never stored, and again from the     *)
(* next lock, removal or replacement that overtakes none.                   *)
THEOREM BothCopiesThere == Spec => []UnlockedHasPhrase
<1>1. IInv => UnlockedHasPhrase
  BY DEF IInv, Session, Clean, Open, UnlockedHasPhrase
<1> QED BY <1>1, Inductive, PTL

(* Once a wallet is locked and the pages' calls have returned, neither copy *)
(* of its phrase is left: unless, besides, a login failed once it had       *)
(* cached the phrase.                                                       *)
THEOREM NoCopyLeft == Spec => []LockForgets
<1>1. IInv /\ slips = {} => LockForgets
  BY DEF IInv, Session, Clean
<1>2. IInv => LockForgets
  BY <1>1 DEF LockForgets
<1> QED BY <1>2, Inductive, PTL

(* No job of a cleared wallet brings its phrase or one of its addresses     *)
(* back, as the revision it read has moved; a page's call under way at the  *)
(* clear brings back its own phrase and no other.  This needs no condition: *)
(* it holds whatever is locked, cleared or replaced during whatever calls.  *)
THEOREM ClearedForGood == Spec => []NothingOfClearedWallet
  BY Remembers, Inductive, PTL
=============================================================================
