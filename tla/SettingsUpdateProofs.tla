------------------------- MODULE SettingsUpdateProofs -------------------------
(***************************************************************************)
(* Proofs about ConfigStore and SettingsUpdate, for every range of          *)
(* generations, every set of settings and credentials, and every contents   *)
(* that earlier firmware may have left in the slots.                       *)
(***************************************************************************)
EXTENDS SettingsUpdate, TLAPS

-----------------------------------------------------------------------------
(* Generations.                                                            *)

(* The next generation is a generation, and newer than the one before; the  *)
(* one before is not newer.                                                *)
LEMMA FollowingIsNewer ==
    ASSUME NEW g \in Generations
    PROVE  /\ Following(g) \in Generations
           /\ Newer(Following(g), g) /\ ~Newer(g, Following(g))
<1>1. HalfRange \in Nat /\ HalfRange > 1
  BY StoreAssumption
<1>2. CASE g = 2 * HalfRange - 1
  <2>1. Following(g) = 0
    BY <1>2 DEF Following
  <2>2. QED
    BY <1>1, <1>2, <2>1, SMT DEF Newer, Generations
<1>3. CASE g # 2 * HalfRange - 1
  <2>1. Following(g) = g + 1
    BY <1>3 DEF Following
  <2>2. QED
    BY <1>1, <1>3, <2>1, SMT DEF Newer, Generations
<1>4. QED
  BY <1>2, <1>3

(* What is and is not a record.                                            *)
LEMMA RecordFacts ==
    /\ Torn.payload = NoPayload /\ NoWrite.payload = NoPayload
    /\ NoWrite.slot = "none" /\ "none" \notin Slots
    /\ NoPayload \notin Payloads
    /\ Slots = {"A", "B"}
    /\ Other("A") = "B" /\ Other("B") = "A"
    /\ 1 \in Generations /\ 0 \in Generations
    /\ NoTuple \notin Tuples
    /\ Blank.pending = NoTuple /\ Blank.config = Defaults /\ Blank \in Payloads
BY StoreAssumption, SMT
   DEF Torn, NoWrite, Slots, Other, Generations, Blank, Payloads

(* A slot holds a record exactly if it is not torn.                        *)
LEMMA ValidIsRecord ==
    ASSUME StoreTypeOK, NEW s \in Slots
    PROVE  /\ Valid(s) <=> flash[s] # Torn
           /\ Valid(s) => /\ flash[s] \in [gen : Generations, payload : Payloads]
                          /\ flash[s].gen \in Generations
                          /\ flash[s].payload \in Payloads
<1>1. flash[s] \in {Torn} \cup [gen : Generations, payload : Payloads]
  BY DEF StoreTypeOK
<1>2. CASE flash[s] = Torn
  BY <1>2, RecordFacts DEF Valid
<1>3. CASE flash[s] \in [gen : Generations, payload : Payloads]
  BY <1>3, RecordFacts DEF Valid
<1>4. QED
  BY <1>1, <1>2, <1>3

(* What a boot finds is a payload, with a generation.                      *)
LEMMA StoredType ==
    ASSUME StoreTypeOK
    PROVE  /\ Latest \in Slots
           /\ Recorded => Valid(Latest)
           /\ Stored \in Payloads /\ StoredGen \in Generations
           /\ Stored.config \in Configs /\ Stored.pending \in Tuples \cup {NoTuple}
<1>1. Latest \in Slots
  BY RecordFacts DEF Latest
<1>2. Recorded => Valid(Latest)
  BY DEF Recorded, Latest
<1>3. Stored \in Payloads /\ StoredGen \in Generations
  BY <1>1, <1>2, ValidIsRecord, RecordFacts DEF Stored, StoredGen
<1>4. QED
  BY <1>1, <1>2, <1>3 DEF Payloads

-----------------------------------------------------------------------------
(* The store.  While a record is being written its slot is torn, and its     *)
(* generation follows that of the other slot.                              *)

WriteInv ==
    writing # NoWrite =>
        /\ flash[writing.slot] = Torn
        /\ Valid(Other(writing.slot)) =>
               writing.gen = Following(flash[Other(writing.slot)].gen)

StoreInv == StoreTypeOK /\ Neighbours /\ WriteInv

(* The slots start in order, with no write under way.                       *)
LEMMA InitStore == StoreInit => StoreInv
<1> SUFFICES ASSUME StoreInit PROVE StoreInv
  OBVIOUS
<1>1. StoreTypeOK
  BY InstalledAssumption, RecordFacts DEF StoreInit, StoreTypeOK, Forgotten
<1>2. Neighbours
  BY <1>1, InstalledAssumption, ValidIsRecord, RecordFacts DEF StoreInit, Neighbours
<1>3. WriteInv
  BY DEF StoreInit, WriteInv
<1>4. QED
  BY <1>1, <1>2, <1>3 DEF StoreInv

(* Erasing the slot for the next record leaves what a boot finds alone.     *)
LEMMA EraseKeepsStored ==
    ASSUME StoreInv, NEW payload \in Payloads, WriteErase(payload)
    PROVE  StoreInv' /\ Stored' = Stored /\ StoredGen' = StoredGen
<1>1. Latest \in Slots /\ (Recorded => Valid(Latest))
  BY StoredType DEF StoreInv
<1>2. Target \in Slots
  BY <1>1, RecordFacts DEF Target, Other, Slots
<1>3. flash' \in [Slots -> {Torn} \cup [gen : Generations, payload : Payloads]]
  BY <1>2 DEF StoreInv, StoreTypeOK, WriteErase
<1>4. NextGen \in Generations
  BY <1>1, ValidIsRecord, FollowingIsNewer, RecordFacts DEF NextGen, StoreInv
<1>5. StoreTypeOK'
  BY <1>2, <1>3, <1>4 DEF StoreInv, StoreTypeOK, WriteErase
<1>6. flash'[Target] = Torn /\ \A s \in Slots : s # Target => flash'[s] = flash[s]
  BY <1>2 DEF WriteErase, StoreInv, StoreTypeOK
<1>7. CASE Recorded
  <2>1. Target = Other(Latest)
    BY <1>7 DEF Target
  <2>2. flash'[Latest] = flash[Latest] /\ flash'[Other(Latest)] = Torn
    BY <1>1, <1>6, <2>1, RecordFacts
  <2>3. CASE Latest = "A"
    <3>1. Valid("A")' /\ ~Valid("B")'
      BY <1>1, <1>7, <2>2, <2>3, RecordFacts DEF Valid
    <3>2. Recorded' /\ Latest' = "A"
      BY <3>1 DEF Recorded, Latest
    <3>3. Stored' = Stored /\ StoredGen' = StoredGen
      BY <1>7, <2>2, <2>3, <3>2 DEF Stored, StoredGen
    <3>4. WriteInv' /\ Neighbours'
      BY <1>6, <1>7, <2>1, <2>2, <2>3, <3>1, RecordFacts
         DEF WriteInv, Neighbours, WriteErase, NextGen
    <3>5. QED
      BY <1>5, <3>3, <3>4 DEF StoreInv
  <2>4. CASE Latest = "B"
    <3>1. ~Valid("A")' /\ Valid("B")'
      BY <1>1, <1>7, <2>2, <2>4, RecordFacts DEF Valid
    <3>2. Recorded' /\ Latest' = "B"
      BY <3>1 DEF Recorded, Latest
    <3>3. Stored' = Stored /\ StoredGen' = StoredGen
      BY <1>7, <2>2, <2>4, <3>2 DEF Stored, StoredGen
    <3>4. WriteInv' /\ Neighbours'
      BY <1>6, <1>7, <2>1, <2>2, <2>4, <3>1, RecordFacts
         DEF WriteInv, Neighbours, WriteErase, NextGen
    <3>5. QED
      BY <1>5, <3>3, <3>4 DEF StoreInv
  <2>5. QED
    BY <1>1, <2>3, <2>4, RecordFacts
<1>8. CASE ~Recorded
  <2>1. Target = "A" /\ ~Valid("A") /\ ~Valid("B")
    BY <1>8 DEF Target, Recorded
  <2>2. ~Valid("A")' /\ ~Valid("B")'
    BY <1>6, <2>1, RecordFacts DEF Valid
  <2>3. Stored' = Stored /\ StoredGen' = StoredGen
    BY <1>8, <2>2 DEF Stored, StoredGen, Recorded, Blank
  <2>4. WriteInv' /\ Neighbours'
    BY <1>6, <2>1, <2>2, RecordFacts DEF WriteInv, Neighbours, WriteErase
  <2>5. QED
    BY <1>5, <2>3, <2>4 DEF StoreInv
<1>9. QED
  BY <1>7, <1>8

(* A record that was programmed is what a boot finds from then on, across    *)
(* the wrap of the generations; one that was not leaves it alone.          *)
LEMMA ProgramStores ==
    ASSUME StoreInv, NEW ok \in BOOLEAN, WriteProgram(ok)
    PROVE  /\ StoreInv'
           /\ \/ Stored' = Stored /\ StoredGen' = StoredGen /\ ~ok
              \/ Stored' = writing.payload /\ StoredGen' = writing.gen
<1>1. /\ writing.slot \in Slots /\ writing.gen \in Generations
      /\ writing.payload \in Payloads
  BY RecordFacts DEF StoreInv, StoreTypeOK, WriteProgram
<1>2. flash[writing.slot] = Torn /\ ~Valid(writing.slot)
  BY RecordFacts DEF StoreInv, WriteInv, WriteProgram, Valid
<1>3. StoreTypeOK'
  <2>1. flash' \in [Slots -> {Torn} \cup [gen : Generations, payload : Payloads]]
    BY <1>1 DEF StoreInv, StoreTypeOK, WriteProgram
  <2>2. active' \in [gen : Generations, pending : Tuples \cup {NoTuple}]
    BY <1>1 DEF StoreInv, StoreTypeOK, WriteProgram, Adopted, Payloads
  <2>3. QED
    BY <2>1, <2>2 DEF StoreTypeOK, WriteProgram
<1>4. WriteInv'
  BY DEF WriteInv, WriteProgram
<1>5. CASE flash' = flash
  <2>1. Stored' = Stored /\ StoredGen' = StoredGen /\ Neighbours'
    BY <1>5 DEF StoreInv, Stored, StoredGen, Recorded, Latest, Valid, Neighbours, Blank
  <2>2. ~ok
    BY <1>2, <1>5 DEF WriteProgram, Verified
  <2>3. QED
    BY <1>3, <1>4, <2>1, <2>2 DEF StoreInv
<1>6. CASE flash' = [flash EXCEPT ![writing.slot] =
                         [gen |-> writing.gen, payload |-> writing.payload]]
  <2>1. /\ flash'[writing.slot] = [gen |-> writing.gen, payload |-> writing.payload]
        /\ \A s \in Slots : s # writing.slot => flash'[s] = flash[s]
    BY <1>1, <1>6 DEF StoreInv, StoreTypeOK
  <2>2. flash'[writing.slot].payload # NoPayload
    BY <1>1, <2>1, RecordFacts
  <2> DEFINE other == Other(writing.slot)
  <2>3. other \in Slots /\ other # writing.slot /\ flash'[other] = flash[other]
    BY <1>1, <2>1, RecordFacts
  <2>4. CASE Valid(other)
    <3>1. flash[other].gen \in Generations /\ writing.gen = Following(flash[other].gen)
      BY <2>3, <2>4, ValidIsRecord DEF StoreInv, WriteInv, WriteProgram
    <3>2. /\ Newer(flash'[writing.slot].gen, flash'[other].gen)
          /\ ~Newer(flash'[other].gen, flash'[writing.slot].gen)
      BY <2>1, <2>3, <3>1, FollowingIsNewer
    <3>3. Latest' = writing.slot /\ Recorded' /\ Neighbours'
      <4>1. CASE writing.slot = "A"
        BY <2>1, <2>2, <2>3, <2>4, <3>1, <3>2, <4>1, RecordFacts
           DEF Latest, Recorded, Neighbours, Valid
      <4>2. CASE writing.slot = "B"
        BY <2>1, <2>2, <2>3, <2>4, <3>1, <3>2, <4>2, RecordFacts
           DEF Latest, Recorded, Neighbours, Valid
      <4>3. QED
        BY <1>1, <4>1, <4>2, RecordFacts
    <3>4. QED
      BY <1>3, <1>4, <2>1, <3>3 DEF StoreInv, Stored, StoredGen
  <2>5. CASE ~Valid(other)
    <3>1. flash'[other].payload = NoPayload
      BY <2>3, <2>5 DEF Valid
    <3>2. Latest' = writing.slot /\ Recorded' /\ Neighbours'
      <4>1. CASE writing.slot = "A"
        BY <2>1, <2>2, <3>1, <4>1, RecordFacts DEF Latest, Recorded, Neighbours, Valid
      <4>2. CASE writing.slot = "B"
        BY <2>1, <2>2, <3>1, <4>2, RecordFacts DEF Latest, Recorded, Neighbours, Valid
      <4>3. QED
        BY <1>1, <4>1, <4>2, RecordFacts
    <3>3. QED
      BY <1>3, <1>4, <2>1, <3>2 DEF StoreInv, Stored, StoredGen
  <2>6. QED
    BY <2>4, <2>5
<1>7. QED
  BY <1>5, <1>6 DEF WriteProgram

(* However writeRecord ends, a boot finds what it found before or the whole  *)
(* new record; and if it reports success, the new record.                  *)
LEMMA WriteOutcome ==
    ASSUME StoreInv, NEW payload \in Payloads,
           writing # NoWrite => writing.payload = payload,
           NEW ok \in BOOLEAN,
           \/ ok /\ WriteSame(payload)
           \/ ~ok /\ WriteRefused(payload)
           \/ WriteProgram(ok)
    PROVE  /\ StoreInv' /\ writing' = NoWrite
           /\ (Stored' = Stored /\ ~ok) \/ Stored' = payload
           /\ ok => active'.pending = payload.pending
           /\ ~ok => active' = active
<1>1. CASE ok /\ WriteSame(payload)
  <2>1. Latest \in Slots /\ Valid(Latest)
    BY <1>1, StoredType DEF StoreInv, WriteSame
  <2>2. flash[Latest].gen \in Generations
    BY <2>1, ValidIsRecord DEF StoreInv
  <2>3. StoreTypeOK'
    BY <1>1, <2>2 DEF StoreInv, StoreTypeOK, WriteSame, Payloads
  <2>4. Neighbours' /\ WriteInv' /\ Stored' = payload
    BY <1>1 DEF StoreInv, WriteSame, Neighbours, WriteInv, Stored, Recorded, Latest, Valid
  <2>5. QED
    BY <1>1, <2>3, <2>4 DEF StoreInv, WriteSame
<1>2. CASE ~ok /\ WriteRefused(payload)
  BY <1>2 DEF StoreInv, StoreTypeOK, WriteRefused, storeVars, Neighbours, WriteInv,
              Stored, Recorded, Latest, Valid, Blank
<1>3. CASE WriteProgram(ok)
  <2>1. writing # NoWrite /\ writing' = NoWrite
    BY <1>3 DEF WriteProgram
  <2>2. /\ ok => active'.pending = payload.pending
        /\ ~ok => active' = active
    BY <1>3, <2>1 DEF WriteProgram, Adopted
  <2>3. QED
    BY <1>3, <2>1, <2>2, ProgramStores
<1>4. QED
  BY <1>1, <1>2, <1>3

(* Loading, and losing power, leave the slots alone.                        *)
LEMMA StoreKept ==
    ASSUME StoreInv, UNCHANGED flash,
           \/ UNCHANGED <<writing, active>>
           \/ writing' = NoWrite /\ active' = Forgotten
           \/ UNCHANGED writing /\ active' = [gen |-> StoredGen, pending |-> Stored.pending]
    PROVE  StoreInv' /\ Stored' = Stored
<1>1. Stored' = Stored /\ Neighbours'
  BY DEF StoreInv, Neighbours, Stored, Recorded, Latest, Valid, Blank
<1>2. WriteInv'
  BY DEF StoreInv, WriteInv, Valid
<1>3. StoreTypeOK'
  <2>1. /\ StoredGen \in Generations /\ Stored.pending \in Tuples \cup {NoTuple}
        /\ Forgotten \in [gen : Generations, pending : Tuples \cup {NoTuple}]
    BY StoredType, RecordFacts DEF StoreInv, Forgotten
  <2>2. active' \in [gen : Generations, pending : Tuples \cup {NoTuple}]
    BY <2>1 DEF StoreInv, StoreTypeOK
  <2>3. QED
    BY <2>2 DEF StoreInv, StoreTypeOK
<1>4. QED
  BY <1>1, <1>2, <1>3 DEF StoreInv

-----------------------------------------------------------------------------
(* The program.  What each of its places says of the record that a boot      *)
(* would find: this is the strengthening under which the save is atomic.    *)

PayloadOf ==
    IF pc = "stage" THEN StagePayload
    ELSE IF pc = "save" THEN SavePayload
    ELSE IF pc = "commit" THEN CommitPayload
    ELSE MigratePayload

Phase ==
    /\ writing # NoWrite => /\ pc \in {"stage", "save", "commit", "migrate"}
                            /\ writing.payload = PayloadOf
    /\ booting => pc \in {"apply", "commit", "identify", "migrate", "configure"}
    /\ pc \in {"identify", "migrate", "configure"} =>
           booting /\ Stored.pending = NoTuple /\ active.pending = NoTuple
    /\ pc \in {"apply", "commit"} =>
           /\ Stored.config = runtime /\ Stored.pending = node
           /\ active.pending = node
           /\ ~booting => runtime = request.config /\ node = request.tuple
    /\ pc = "commit" => rui = node
    /\ pc = "save" =>
           request.tuple = IF active.pending # NoTuple THEN active.pending ELSE rui

SettingsInv == TypeOK /\ StoreInv /\ Phase

(* What the program writes are payloads.                                   *)
LEMMA PayloadTypes ==
    ASSUME TypeOK
    PROVE  /\ StagePayload \in Payloads /\ SavePayload \in Payloads
           /\ CommitPayload \in Payloads /\ MigratePayload \in Payloads
BY DEF TypeOK, StoreTypeOK, StagePayload, SavePayload, CommitPayload, MigratePayload,
       Payloads

(* The program starts with nothing under way.                              *)
LEMMA InitSettings == Init => SettingsInv
<1> SUFFICES ASSUME Init PROVE SettingsInv
  OBVIOUS
<1>1. StoreInv
  BY InitStore DEF Init
<1>2. rui \in Tuples /\ Defaults \in Configs /\ 0 \in Generations
  BY StoreAssumption, SettingsAssumption, RecordFacts DEF Init
<1>3. /\ request \in [config : Configs, tuple : Tuples, revision : Generations]
      /\ form \in [revision : Generations, setting : Settings \cup {NoReport}]
  BY <1>2 DEF Init, NoRequest, NoForm
<1>4. asked \subseteq Tuples
  <2>1. \A s \in Slots : Valid(s) => flash[s].payload.pending \in Tuples \cup {NoTuple}
    BY <1>1, ValidIsRecord DEF StoreInv, Payloads
  <2>2. QED
    BY <1>2, <2>1 DEF Init
<1>5. TypeOK
  <2>1. 0 \in 0..MaxSaves
    BY SettingsAssumption
  <2>2. node \in Tuples /\ runtime \in Configs
    BY <1>2 DEF Init
  <2>3. QED
    <3>1. StoreTypeOK /\ rui \in Tuples /\ runtime \in Configs /\ node \in Tuples
      BY <1>1, <1>2, <2>2 DEF StoreInv
    <3>2. /\ booting \in BOOLEAN /\ started \in BOOLEAN /\ rebootDue \in BOOLEAN
      BY DEF Init
    <3>4. /\ pc = "off" /\ field \in 1..4 /\ report \in Reports \cup {NoReport}
          /\ saves \in 0..MaxSaves
      BY <2>1 DEF Init
    <3>3. QED
      BY <1>3, <1>4, <3>1, <3>2, <3>4 DEF TypeOK
<1>6. Phase
  BY DEF Init, StoreInit, Phase
<1>7. QED
  BY <1>1, <1>5, <1>6 DEF SettingsInv

(* Answering a save keeps the types, and leaves nothing under way.          *)
LEMMA AnswerTypes ==
    ASSUME TypeOK, NEW code \in Reports, Answer(code)
    PROVE  /\ pc' = "run" /\ report' \in Reports /\ rebootDue' \in BOOLEAN
           /\ booting' = booting /\ started' = started
           /\ request' \in [config : Configs, tuple : Tuples, revision : Generations]
<1>1. NoRequest \in [config : Configs, tuple : Tuples, revision : Generations]
  BY StoreAssumption, RecordFacts DEF TypeOK, NoRequest
<1>2. rebootDue' \in BOOLEAN
  BY DEF Answer
<1>3. QED
  BY <1>1, <1>2 DEF Answer

(* So does giving up on the tuple, at boot or for the portal.              *)
LEMMA UnappliedTypes ==
    ASSUME TypeOK, Unapplied
    PROVE  /\ pc' = "run" /\ report' \in Reports \cup {NoReport}
           /\ rebootDue' \in BOOLEAN /\ booting' \in BOOLEAN /\ ~booting'
           /\ started' = started /\ field' = 1
           /\ request' \in [config : Configs, tuple : Tuples, revision : Generations]
<1>1. CASE booting
  BY <1>1 DEF Unapplied, BootFailed, TypeOK
<1>2. CASE ~booting
  <2>1. Answer("saved_pending") /\ "saved_pending" \in Reports /\ field' = 1
    BY <1>2 DEF Unapplied, Reports
  <2>2. /\ pc' = "run" /\ report' \in Reports /\ rebootDue' \in BOOLEAN
        /\ booting' = booting /\ started' = started
        /\ request' \in [config : Configs, tuple : Tuples, revision : Generations]
    BY <2>1, AnswerTypes
  <2>3. booting' \in BOOLEAN /\ ~booting'
    BY <1>2, <2>2 DEF TypeOK
  <2>4. QED
    BY <2>1, <2>2, <2>3
<1>3. QED
  BY <1>1, <1>2

(* Each setter keeps the types and the staged tuple.                       *)
LEMMA ApplyStep == SettingsInv /\ (Apply \/ Applied) => SettingsInv'
<1> SUFFICES ASSUME SettingsInv, Apply \/ Applied PROVE SettingsInv'
  OBVIOUS
<1>1. /\ UNCHANGED <<storeVars, runtime, node, form, saves, asked>>
      /\ pc = "apply"
  BY DEF Apply, Applied
<1>2. StoreInv' /\ Stored' = Stored
  BY <1>1, StoreKept DEF SettingsInv, storeVars
<1>3. /\ rui' \in Tuples /\ field' \in 1..4
      /\ \/ /\ pc' = "apply" \/ (pc' = "commit" /\ rui' = node)
            /\ UNCHANGED <<booting, request, report, rebootDue, started>>
         \/ Unapplied
  <2>1. CASE Apply
    <3>1. PICK ok \in BOOLEAN, value \in {rui[Setter[field]], node[Setter[field]]} :
              /\ rui' = [rui EXCEPT ![Setter[field]] = value]
              /\ IF ok THEN field' = field + 1
                            /\ UNCHANGED <<pc, booting, request, report, rebootDue, started>>
                       ELSE Unapplied
      BY <2>1 DEF Apply
    <3>2. field \in 1..3
      BY <2>1 DEF Apply
    <3>3. Setter[field] \in Fields
      BY <3>2 DEF Setter, Fields
    <3>4. rui \in [Fields -> Values] /\ node \in [Fields -> Values]
      BY SettingsAssumption DEF SettingsInv, TypeOK
    <3>5. rui' \in [Fields -> Values]
      BY <3>1, <3>3, <3>4
    <3>6. field' \in 1..4
      BY <3>1, <3>2 DEF Unapplied
    <3>7. QED
      BY <1>1, <3>1, <3>5, <3>6, SettingsAssumption
  <2>2. CASE Applied
    BY <2>2 DEF Applied, Unapplied, SettingsInv, TypeOK
  <2>3. QED
    BY <2>1, <2>2
<1>4. CASE Unapplied
  <2>1. TypeOK'
    BY <1>1, <1>2, <1>3, <1>4, UnappliedTypes DEF SettingsInv, TypeOK, StoreInv
  <2>2. Phase'
    BY <1>1, <1>4, UnappliedTypes DEF SettingsInv, Phase, storeVars
  <2>3. QED
    BY <1>2, <2>1, <2>2 DEF SettingsInv
<1>5. CASE /\ pc' = "apply" \/ (pc' = "commit" /\ rui' = node)
           /\ UNCHANGED <<booting, request, report, rebootDue, started>>
  <2>1. TypeOK'
    BY <1>1, <1>2, <1>3, <1>5 DEF SettingsInv, TypeOK, StoreInv
  <2>2. Phase'
    BY <1>1, <1>2, <1>5 DEF SettingsInv, Phase, storeVars
  <2>3. QED
    BY <1>2, <2>1, <2>2 DEF SettingsInv
<1>6. QED
  BY <1>3, <1>4, <1>5

WritePhases == {"stage", "save", "commit", "migrate"}

AfterWrite(ok) == AfterStage(ok) \/ AfterSave(ok) \/ AfterCommit(ok) \/ AfterMigrate(ok)

(* A step of writeRecord either erases a slot, which a boot does not notice, *)
(* or is the end of it.                                                    *)
LEMMA WriteCases ==
    ASSUME SettingsInv, pc \in WritePhases, WriteRecord(PayloadOf)
    PROVE  /\ StoreInv'
           /\ UNCHANGED <<rui, field, form, saves, asked>>
           /\ \/ /\ Stored' = Stored /\ writing'.payload = PayloadOf
                 /\ UNCHANGED <<active, pc, booting, started, request, report,
                                rebootDue, runtime, node>>
              \/ \E ok \in BOOLEAN :
                     /\ writing' = NoWrite
                     /\ (Stored' = Stored /\ ~ok) \/ Stored' = PayloadOf
                     /\ ok => active'.pending = PayloadOf.pending
                     /\ ~ok => active' = active
                     /\ AfterWrite(ok)
<1>1. PayloadOf \in Payloads
  BY PayloadTypes DEF PayloadOf, SettingsInv
<1>2. StoreInv /\ (writing # NoWrite => writing.payload = PayloadOf)
  BY DEF SettingsInv, Phase
<1>3. UNCHANGED <<rui, field, form, saves, asked>>
  BY DEF WriteRecord
<1>4. CASE /\ WriteErase(PayloadOf)
           /\ UNCHANGED <<pc, booting, started, request, report, rebootDue, runtime, node>>
  <2>1. StoreInv' /\ Stored' = Stored
    BY <1>1, <1>2, <1>4, EraseKeepsStored
  <2>2. UNCHANGED active /\ writing'.payload = PayloadOf
    BY <1>4 DEF WriteErase
  <2>3. QED
    BY <1>3, <1>4, <2>1, <2>2
<1>5. CASE \E ok \in BOOLEAN :
              /\ \/ ok /\ WriteSame(PayloadOf)
                 \/ ~ok /\ WriteRefused(PayloadOf)
                 \/ WriteProgram(ok)
              /\ AfterWrite(ok)
  <2>1. PICK ok \in BOOLEAN :
              /\ \/ ok /\ WriteSame(PayloadOf)
                 \/ ~ok /\ WriteRefused(PayloadOf)
                 \/ WriteProgram(ok)
              /\ AfterWrite(ok)
    BY <1>5
  <2>2. /\ StoreInv' /\ writing' = NoWrite
        /\ (Stored' = Stored /\ ~ok) \/ Stored' = PayloadOf
        /\ ok => active'.pending = PayloadOf.pending
        /\ ~ok => active' = active
    BY <1>1, <1>2, <2>1, WriteOutcome
  <2>3. QED
    BY <1>3, <2>1, <2>2
<1>6. QED
  BY <1>4, <1>5 DEF WriteRecord, AfterWrite

(* Each record that is written takes the program where its place says.      *)
LEMMA WriteStep == SettingsInv /\ (Stage \/ Save \/ Commit \/ Migrate) => SettingsInv'
<1> SUFFICES ASSUME SettingsInv, Stage \/ Save \/ Commit \/ Migrate PROVE SettingsInv'
  OBVIOUS
<1>1. pc \in WritePhases /\ WriteRecord(PayloadOf)
  BY DEF Stage, Save, Commit, Migrate, PayloadOf, WritePhases
<1>2. StoreInv' /\ UNCHANGED <<rui, field, form, saves, asked>>
  BY <1>1, WriteCases
<1>3. CASE /\ Stored' = Stored /\ writing'.payload = PayloadOf
           /\ UNCHANGED <<active, pc, booting, started, request, report, rebootDue,
                          runtime, node>>
  <2>1. TypeOK'
    BY <1>2, <1>3 DEF SettingsInv, TypeOK, StoreInv
  <2>2. PayloadOf' = PayloadOf
    BY <1>3 DEF PayloadOf, StagePayload, SavePayload, CommitPayload, MigratePayload
  <2>3. Phase'
    BY <1>1, <1>2, <1>3, <2>2 DEF SettingsInv, Phase, WritePhases
  <2>4. QED
    BY <1>2, <2>1, <2>3 DEF SettingsInv
<1>4. ASSUME NEW ok \in BOOLEAN, writing' = NoWrite,
             (Stored' = Stored /\ ~ok) \/ Stored' = PayloadOf,
             ok => active'.pending = PayloadOf.pending,
             ~ok => active' = active,
             AfterWrite(ok)
      PROVE  SettingsInv'
  <2>0. NoTuple \notin Tuples /\ node \in Tuples /\ runtime \in Configs
        /\ request.config \in Configs /\ request.tuple \in Tuples
    BY RecordFacts DEF SettingsInv, TypeOK
  <2>1. CASE AfterStage(ok)
    <3>1. CASE ok
      <4>1. /\ pc' = "apply" /\ runtime' = request.config /\ node' = request.tuple
            /\ UNCHANGED <<booting, started, request, report, rebootDue>>
            /\ Stored' = StagePayload /\ active'.pending = request.tuple
        BY <1>4, <2>1, <3>1 DEF AfterStage, PayloadOf, StagePayload
      <4>2. TypeOK'
        BY <1>2, <2>0, <4>1 DEF SettingsInv, TypeOK, StoreInv
      <4>3. ~booting
        BY <2>1 DEF AfterStage, SettingsInv, Phase
      <4>4. Phase'
        BY <1>4, <4>1, <4>3 DEF Phase, StagePayload
      <4>5. QED
        BY <1>2, <4>2, <4>4 DEF SettingsInv
    <3>2. CASE ~ok
      <4>1. Answer("save_failed") /\ UNCHANGED <<runtime, node>> /\ "save_failed" \in Reports
        BY <2>1, <3>2 DEF AfterStage, Reports
      <4>2. ~booting
        BY <2>1 DEF AfterStage, SettingsInv, Phase
      <4>3. TypeOK' /\ Phase'
        BY <1>2, <1>4, <4>1, <4>2, AnswerTypes DEF SettingsInv, TypeOK, StoreInv, Phase
      <4>4. QED
        BY <1>2, <4>3 DEF SettingsInv
    <3>3. QED
      BY <3>1, <3>2
  <2>2. CASE AfterSave(ok)
    <3>1. PICK code \in Reports : Answer(code)
      BY <2>2 DEF AfterSave, Reports
    <3>2. ~booting
      BY <2>2 DEF AfterSave, SettingsInv, Phase
    <3>3. runtime' \in Configs /\ node' = node
      BY <2>0, <2>2 DEF AfterSave
    <3>4. TypeOK' /\ Phase'
      BY <1>2, <1>4, <3>1, <3>2, <3>3, AnswerTypes
        DEF SettingsInv, TypeOK, StoreInv, Phase
    <3>5. QED
      BY <1>2, <3>4 DEF SettingsInv
  <2>3. CASE AfterCommit(ok)
    <3>0. UNCHANGED <<runtime, node>> /\ pc = "commit"
      BY <2>3 DEF AfterCommit
    <3>1. CASE ~booting
      <4>1. PICK code \in Reports : Answer(code)
        BY <2>3, <3>1 DEF AfterCommit, Reports
      <4>2. TypeOK' /\ Phase'
        BY <1>2, <1>4, <3>0, <3>1, <4>1, AnswerTypes
           DEF SettingsInv, TypeOK, StoreInv, Phase
      <4>3. QED
        BY <1>2, <4>2 DEF SettingsInv
    <3>2. CASE booting /\ ~ok
      <4>1. BootFailed
        BY <2>3, <3>2 DEF AfterCommit
      <4>2. TypeOK' /\ Phase'
        BY <1>2, <1>4, <3>0, <4>1 DEF SettingsInv, TypeOK, StoreInv, Phase, BootFailed
      <4>3. QED
        BY <1>2, <4>2 DEF SettingsInv
    <3>3. CASE booting /\ ok
      <4>1. pc' = "identify" /\ UNCHANGED <<booting, started, request, report, rebootDue>>
        BY <2>3, <3>3 DEF AfterCommit
      <4>2. Stored'.pending = NoTuple /\ active'.pending = NoTuple
        BY <1>4, <3>0, <3>3 DEF PayloadOf, CommitPayload
      <4>3. TypeOK' /\ Phase'
        BY <1>2, <1>4, <3>0, <3>3, <4>1, <4>2 DEF SettingsInv, TypeOK, StoreInv, Phase
      <4>4. QED
        BY <1>2, <4>3 DEF SettingsInv
    <3>4. QED
      BY <3>1, <3>2, <3>3
  <2>4. CASE AfterMigrate(ok)
    <3>0. /\ UNCHANGED <<runtime, node, request, started, rebootDue>>
          /\ pc = "migrate" /\ booting /\ active.pending = NoTuple
          /\ Stored.pending = NoTuple
      BY <2>4 DEF AfterMigrate, SettingsInv, Phase
    <3>1. CASE ok
      <4>1. /\ pc' = "configure" /\ booting' = booting /\ report' \in Reports
        BY <2>4, <3>1 DEF AfterMigrate, Reports
      <4>2. Stored'.pending = NoTuple /\ active'.pending = NoTuple
        BY <1>4, <3>0, <3>1 DEF PayloadOf, MigratePayload
      <4>3. TypeOK' /\ Phase'
        BY <1>2, <1>4, <3>0, <4>1, <4>2 DEF SettingsInv, TypeOK, StoreInv, Phase
      <4>4. QED
        BY <1>2, <4>3 DEF SettingsInv
    <3>2. CASE ~ok
      <4>1. /\ pc' = "run" /\ booting' = FALSE /\ report' \in Reports
        BY <2>4, <3>2 DEF AfterMigrate, Reports
      <4>2. TypeOK' /\ Phase'
        BY <1>2, <1>4, <3>0, <4>1 DEF SettingsInv, TypeOK, StoreInv, Phase
      <4>3. QED
        BY <1>2, <4>2 DEF SettingsInv
    <3>3. QED
      BY <3>1, <3>2
  <2>5. QED
    BY <1>4, <2>1, <2>2, <2>3, <2>4 DEF AfterWrite
<1>5. QED
  <2>1. \/ /\ Stored' = Stored /\ writing'.payload = PayloadOf
           /\ UNCHANGED <<active, pc, booting, started, request, report, rebootDue,
                          runtime, node>>
        \/ \E ok \in BOOLEAN :
               /\ writing' = NoWrite
               /\ (Stored' = Stored /\ ~ok) \/ Stored' = PayloadOf
               /\ ok => active'.pending = PayloadOf.pending
               /\ ~ok => active' = active
               /\ AfterWrite(ok)
    BY <1>1, WriteCases
  <2>2. QED
    BY <2>1, <1>3, <1>4

BootStep == PowerLoss \/ PowerOn \/ Identify \/ Unidentified \/ Configure
PortalStep == FormRead \/ PortalSave \/ PortalRefuse

(* Losing power and booting keep the invariant.                            *)
LEMMA BootStepInv == SettingsInv /\ BootStep => SettingsInv'
<1> SUFFICES ASSUME SettingsInv, BootStep PROVE SettingsInv'
  OBVIOUS
<1>0. /\ NoTuple \notin Tuples /\ rui \in Tuples /\ node \in Tuples
      /\ Defaults \in Configs /\ 0 \in Generations
      /\ Stored.config \in Configs /\ Stored.pending \in Tuples \cup {NoTuple}
  BY RecordFacts, StoreAssumption, StoredType DEF SettingsInv, TypeOK
<1>1. CASE PowerLoss
  <2>1. StoreInv' /\ Stored' = Stored
    BY <1>1, StoreKept DEF PowerLoss, StorePowerLoss, SettingsInv
  <2>2. NoRequest \in [config : Configs, tuple : Tuples, revision : Generations]
    BY <1>0 DEF NoRequest
  <2>3. TypeOK'
    <3>1. /\ booting' \in BOOLEAN /\ started' \in BOOLEAN /\ rebootDue' \in BOOLEAN
      BY <1>1 DEF PowerLoss
    <3>2. /\ pc' = "off" /\ field' = 1 /\ report' = NoReport /\ runtime' = Defaults
          /\ node' = rui /\ request' = NoRequest
          /\ UNCHANGED <<rui, form, saves, asked>>
      BY <1>1 DEF PowerLoss
    <3>3. QED
      BY <1>0, <2>1, <2>2, <3>1, <3>2 DEF SettingsInv, TypeOK, StoreInv
  <2>4. Phase'
    BY <1>1 DEF PowerLoss, StorePowerLoss, Phase
  <2>5. QED
    BY <2>1, <2>3, <2>4 DEF SettingsInv
<1>2. CASE PowerOn
  <2>1. StoreInv' /\ Stored' = Stored
    BY <1>2, StoreKept DEF PowerOn, Load, SettingsInv
  <2>2. TypeOK'
    BY <1>0, <1>2, <2>1 DEF PowerOn, SettingsInv, TypeOK, StoreInv
  <2>3. ~booting /\ writing = NoWrite
    BY <1>2 DEF PowerOn, SettingsInv, Phase
  <2>4. Phase'
    BY <1>0, <1>2, <2>1, <2>3 DEF PowerOn, Load, Phase
  <2>5. QED
    BY <2>1, <2>2, <2>4 DEF SettingsInv
<1>3. CASE Identify
  <2>1. StoreInv' /\ Stored' = Stored
    BY <1>3, StoreKept DEF Identify, storeVars, SettingsInv
  <2>2. runtime' \in Configs
    <3>1. runtime \in [setting : Settings, network : Networks] /\ rui \in Networks
      BY <1>0, SettingsAssumption DEF SettingsInv, TypeOK, Networks
    <3>2. [runtime EXCEPT !.network = rui] \in [setting : Settings, network : Networks]
      BY <3>1
    <3>3. QED
      BY <1>3, <3>1, <3>2, SettingsAssumption DEF Identify
  <2>3. TypeOK'
    BY <1>0, <1>3, <2>1, <2>2 DEF Identify, SettingsInv, TypeOK, StoreInv
  <2>4. Phase'
    BY <1>3, <2>1 DEF Identify, SettingsInv, Phase, storeVars
  <2>5. QED
    BY <2>1, <2>3, <2>4 DEF SettingsInv
<1>4. CASE Unidentified \/ Configure
  <2>1. StoreInv' /\ Stored' = Stored
    BY <1>4, StoreKept DEF Unidentified, Configure, storeVars, SettingsInv
  <2>2. TypeOK'
    BY <1>4, <2>1 DEF Unidentified, Configure, BootFailed, SettingsInv, TypeOK, StoreInv
  <2>3. Phase'
    BY <1>4 DEF Unidentified, Configure, BootFailed, SettingsInv, Phase, storeVars
  <2>4. QED
    BY <2>1, <2>2, <2>3 DEF SettingsInv
<1>5. QED
  BY <1>1, <1>2, <1>3, <1>4 DEF BootStep

(* So does what a browser asks for.                                        *)
LEMMA PortalStepInv == SettingsInv /\ PortalStep => SettingsInv'
<1> SUFFICES ASSUME SettingsInv, PortalStep PROVE SettingsInv'
  OBVIOUS
<1>1. StoreInv' /\ UNCHANGED storeVars /\ pc = "run"
  BY StoreKept DEF PortalStep, FormRead, PortalSave, PortalRefuse, storeVars, SettingsInv
<1>2. writing = NoWrite /\ ~booting
  BY <1>1 DEF SettingsInv, Phase
<1>3. /\ runtime \in [setting : Settings, network : Networks]
      /\ active.gen \in Generations
  BY SettingsAssumption DEF SettingsInv, TypeOK, StoreTypeOK
<1>4. CASE FormRead
  <2>1. form' \in [revision : Generations, setting : Settings \cup {NoReport}]
    BY <1>3, <1>4 DEF FormRead
  <2>2. TypeOK'
    BY <1>1, <1>4, <2>1 DEF FormRead, SettingsInv, TypeOK, StoreInv
  <2>3. Phase'
    BY <1>1, <1>2, <1>4 DEF FormRead, Phase, storeVars
  <2>4. QED
    BY <1>1, <2>2, <2>3 DEF SettingsInv
<1>5. CASE PortalRefuse
  <2>1. "save_failed" \in Reports
    BY DEF Reports
  <2>2. TypeOK'
    BY <1>1, <1>5, <2>1 DEF PortalRefuse, SettingsInv, TypeOK, StoreInv
  <2>3. Phase'
    BY <1>1, <1>2, <1>5 DEF PortalRefuse, Phase, storeVars
  <2>4. QED
    BY <1>1, <2>2, <2>3 DEF SettingsInv
<1>6. CASE PortalSave
  <2>1. PICK setting \in Settings, tuple \in Tuples, credentials \in BOOLEAN :
           /\ \A f \in Fields : tuple[f] # Base[f] => credentials /\ f \in Maskable
           /\ request' =
                  [config |-> [setting |-> setting,
                               network |-> IF runtime.network = NoTuple
                                           THEN OwnProfiles ELSE runtime.network],
                   tuple |-> tuple, revision |-> active.gen]
           /\ pc' = IF credentials THEN "stage" ELSE "save"
           /\ asked' = IF credentials THEN asked \cup {tuple} ELSE asked
    BY <1>6 DEF PortalSave
  <2>2. OwnProfiles \in Networks
    BY DEF Networks
  <2>3. request'.config \in Configs
    BY <1>3, <2>1, <2>2, SettingsAssumption
  <2>4. request' \in [config : Configs, tuple : Tuples, revision : Generations]
    BY <1>3, <2>1, <2>3
  <2>5. saves' \in 0..MaxSaves
    BY <1>6, SettingsAssumption DEF PortalSave, SettingsInv, TypeOK
  <2>6. TypeOK'
    BY <1>1, <1>6, <2>1, <2>4, <2>5 DEF PortalSave, SettingsInv, TypeOK, StoreInv
  <2>7. pc' = "save" => tuple = Base
    <3>1. Base \in [Fields -> Values] /\ tuple \in [Fields -> Values]
      BY SettingsAssumption, <2>1 DEF Base, SettingsInv, TypeOK, StoreTypeOK
    <3>2. SUFFICES ASSUME pc' = "save" PROVE \A f \in Fields : tuple[f] = Base[f]
      BY <3>1
    <3>3. QED
      BY <2>1, <3>2
  <2>8. Phase'
    BY <1>1, <1>2, <1>6, <2>1, <2>7 DEF PortalSave, Phase, storeVars, Base
  <2>9. QED
    BY <1>1, <2>6, <2>8 DEF SettingsInv
<1>7. QED
  BY <1>4, <1>5, <1>6 DEF PortalStep

(* Every step keeps the invariant.                                         *)
LEMMA StepSettings == SettingsInv /\ [Next]_vars => SettingsInv'
<1>1. SettingsInv /\ UNCHANGED vars => SettingsInv'
  <2> SUFFICES ASSUME SettingsInv, UNCHANGED vars PROVE SettingsInv'
    OBVIOUS
  <2>1. StoreInv' /\ Stored' = Stored
    BY StoreKept DEF vars, storeVars, SettingsInv
  <2>2. TypeOK'
    BY <2>1 DEF vars, appVars, SettingsInv, TypeOK, StoreInv
  <2>3. PayloadOf' = PayloadOf
    BY DEF vars, storeVars, appVars, PayloadOf, StagePayload, SavePayload,
           CommitPayload, MigratePayload
  <2>4. Phase'
    BY <2>1, <2>3 DEF vars, storeVars, appVars, SettingsInv, Phase
  <2>5. QED
    BY <2>1, <2>2, <2>4 DEF SettingsInv
<1>2. Next <=> \/ BootStep \/ PortalStep \/ Apply \/ Applied
               \/ Stage \/ Save \/ Commit \/ Migrate
  BY DEF Next, BootStep, PortalStep
<1>3. QED
  BY <1>1, <1>2, ApplyStep, WriteStep, BootStepInv, PortalStepInv

-----------------------------------------------------------------------------
(* The save is atomic: each step is a step of AtomicSettings, or none.       *)

States == [config : Configs, tuple : Tuples]

(* What a boot would bring into force, and what a save offers, are states.   *)
LEMMA StatesAreTyped ==
    ASSUME SettingsInv
    PROVE  InForce \in States /\ Offered \subseteq States
<1>1. /\ Stored.config \in Configs /\ Stored.pending \in Tuples \cup {NoTuple}
      /\ rui \in Tuples /\ runtime \in Configs
      /\ request.config \in Configs /\ request.tuple \in Tuples
  BY StoredType DEF SettingsInv, TypeOK
<1>2. QED
  BY <1>1 DEF InForce, Offered, States

(* At the start nothing is offered.                                        *)
LEMMA InitIsAtomic == Init => Atomic!Init
<1> SUFFICES ASSUME Init PROVE Atomic!Init
  OBVIOUS
<1>1. InForce \in States
  BY InitSettings, StatesAreTyped
<1>2. Offered = {} /\ Reported = "none"
  BY DEF Init, Offered, Reported, NoReport
<1>3. QED
  BY <1>1, <1>2 DEF Atomic!Init, States

AtomicVars == <<InForce, Offered, Reported>>

(* While a tuple is applied, it is the staged one that is in force.         *)
LEMMA ApplyIsAtomic ==
    ASSUME SettingsInv, Apply \/ Applied
    PROVE  Atomic!Next \/ UNCHANGED AtomicVars
<1>1. /\ UNCHANGED <<storeVars, runtime, node>> /\ pc = "apply"
      /\ \/ /\ pc' \in {"apply", "commit"}
            /\ UNCHANGED <<booting, request, report>>
         \/ Unapplied
  BY DEF Apply, Applied
<1>2. Stored' = Stored
  BY <1>1, StoreKept DEF SettingsInv, storeVars
<1>3. /\ Stored.config = runtime /\ Stored.pending = node /\ node # NoTuple
      /\ ~booting => runtime = request.config /\ node = request.tuple
  BY <1>1, RecordFacts DEF SettingsInv, Phase, TypeOK
<1>4. InForce' = InForce
  BY <1>2, <1>3 DEF InForce
<1>5. CASE pc' \in {"apply", "commit"} /\ UNCHANGED <<booting, request, report>>
  <2>1. Offered' = Offered /\ Reported' = Reported
    BY <1>1, <1>5 DEF Offered, Reported
  <2>2. QED
    BY <1>4, <2>1 DEF AtomicVars
<1>6. CASE Unapplied /\ booting
  <2>1. pc' = "run" /\ UNCHANGED <<request, report>>
    BY <1>6 DEF Unapplied, BootFailed
  <2>2. Offered = {} /\ Offered' = {} /\ Reported' = Reported
    BY <1>1, <1>6, <2>1 DEF Offered, Reported
  <2>3. QED
    BY <1>4, <2>2 DEF AtomicVars
<1>7. CASE Unapplied /\ ~booting
  <2>1. pc' = "run" /\ report' = "saved_pending"
    BY <1>7 DEF Unapplied, Answer
  <2>2. /\ Offered = {InForce} /\ Offered' = {} /\ Reported' = "done"
    BY <1>1, <1>3, <1>7, <2>1 DEF Offered, Reported, InForce, NoReport
  <2>3. Atomic!Conclude
    BY <1>4, <2>2 DEF Atomic!Conclude
  <2>4. QED
    BY <2>3 DEF Atomic!Next
<1>8. QED
  BY <1>1, <1>5, <1>6, <1>7

(* A record takes what a save offers into force, or what was in force.      *)
LEMMA WriteIsAtomic ==
    ASSUME SettingsInv, Stage \/ Save \/ Commit \/ Migrate
    PROVE  Atomic!Next \/ UNCHANGED AtomicVars
<1>1. pc \in WritePhases /\ WriteRecord(PayloadOf)
  BY DEF Stage, Save, Commit, Migrate, PayloadOf, WritePhases
<1>2. rui' = rui
  BY <1>1, WriteCases
<1>0. NoTuple \notin Tuples /\ node \in Tuples /\ request.tuple \in Tuples
  BY RecordFacts DEF SettingsInv, TypeOK
<1>3. CASE /\ Stored' = Stored /\ writing'.payload = PayloadOf
           /\ UNCHANGED <<active, pc, booting, started, request, report, rebootDue,
                          runtime, node>>
  BY <1>2, <1>3 DEF AtomicVars, InForce, Offered, Reported
<1>4. ASSUME NEW ok \in BOOLEAN, writing' = NoWrite,
             (Stored' = Stored /\ ~ok) \/ Stored' = PayloadOf,
             ok => active'.pending = PayloadOf.pending,
             ~ok => active' = active,
             AfterWrite(ok)
      PROVE  Atomic!Next \/ UNCHANGED AtomicVars
  <2>1. CASE AfterStage(ok)
    <3>1. pc = "stage" /\ PayloadOf = StagePayload
      BY <2>1 DEF AfterStage, PayloadOf
    <3>2. /\ InForce' = InForce \/ InForce' \in Offered
          /\ ok => InForce' \in Offered
      BY <1>0, <1>2, <1>4, <3>1 DEF InForce, Offered, StagePayload
    <3>3. CASE ok
      <4>1. /\ pc' = "apply" /\ UNCHANGED <<booting, request, report>> /\ ~booting
        BY <2>1, <3>1, <3>3 DEF AfterStage, SettingsInv, Phase
      <4>2. Offered' = Offered /\ Reported' = Reported
        BY <3>1, <4>1 DEF Offered, Reported
      <4>3. QED
        BY <3>2, <3>3, <4>2 DEF Atomic!Next, Atomic!Take
    <3>4. CASE ~ok
      <4>1. pc' = "run" /\ report' = "save_failed"
        BY <2>1, <3>4 DEF AfterStage, Answer
      <4>2. Offered # {} /\ Offered' = {} /\ Reported' = "failed"
        BY <3>1, <4>1 DEF Offered, Reported, NoReport
      <4>3. QED
        BY <3>2, <4>2 DEF Atomic!Next, Atomic!Conclude
    <3>5. QED
      BY <3>3, <3>4
  <2>2. CASE AfterSave(ok)
    <3>1. /\ pc = "save" /\ PayloadOf = SavePayload
          /\ request.tuple = IF active.pending # NoTuple THEN active.pending ELSE rui
      BY <2>2 DEF AfterSave, PayloadOf, SettingsInv, Phase
    <3>2. /\ InForce' = InForce \/ InForce' \in Offered
          /\ ok => InForce' \in Offered
      BY <1>2, <1>4, <3>1 DEF InForce, Offered, SavePayload
    <3>3. /\ pc' = "run"
          /\ report' \in {"unchanged", "saved", "save_failed"}
          /\ report' = "save_failed" \/ ok
      BY <2>2 DEF AfterSave, Answer
    <3>4. /\ Offered # {} /\ Offered' = {} /\ Reported' \in {"done", "failed"}
          /\ Reported' = "done" => ok
      BY <3>1, <3>3 DEF Offered, Reported, NoReport
    <3>5. QED
      BY <3>2, <3>4 DEF Atomic!Next, Atomic!Conclude
  <2>3. CASE AfterCommit(ok)
    <3>1. /\ pc = "commit" /\ PayloadOf = CommitPayload
          /\ Stored.config = runtime /\ Stored.pending = node /\ rui = node
          /\ ~booting => runtime = request.config /\ node = request.tuple
      BY <2>3 DEF AfterCommit, PayloadOf, SettingsInv, Phase
    <3>2. InForce' = InForce
      BY <1>0, <1>2, <1>4, <3>1 DEF InForce, CommitPayload
    <3>3. CASE ~booting
      <4>1. pc' = "run" /\ report' \in {"saved", "saved_pending"}
        BY <2>3, <3>3 DEF AfterCommit, Answer
      <4>2. Offered = {InForce} /\ Offered' = {} /\ Reported' = "done"
        BY <1>0, <3>1, <3>3, <4>1 DEF Offered, Reported, InForce, NoReport
      <4>3. QED
        BY <3>2, <4>2 DEF Atomic!Next, Atomic!Conclude
    <3>4. CASE booting
      <4>1. pc' \in {"run", "identify"} /\ report' = report
        BY <2>3, <3>4 DEF AfterCommit, BootFailed
      <4>2. Offered = {} /\ Offered' = {} /\ Reported' = Reported
        BY <3>1, <3>4, <4>1 DEF Offered, Reported
      <4>3. QED
        BY <3>2, <4>2 DEF AtomicVars
    <3>5. QED
      BY <3>3, <3>4
  <2>4. CASE AfterMigrate(ok)
    <3>1. /\ pc = "migrate" /\ PayloadOf = MigratePayload
          /\ active.pending = NoTuple
      BY <2>4 DEF AfterMigrate, PayloadOf, SettingsInv, Phase
    <3>2. /\ InForce' = InForce \/ InForce' \in Offered
          /\ ok => InForce' \in Offered
      BY <1>2, <1>4, <3>1 DEF InForce, Offered, MigratePayload
    <3>3. /\ pc' \in {"configure", "run"}
          /\ report' = IF ok THEN "saved" ELSE "save_failed"
      BY <2>4 DEF AfterMigrate
    <3>4. /\ Offered # {} /\ Offered' = {} /\ Reported' \in {"done", "failed"}
          /\ Reported' = "done" => ok
      BY <3>1, <3>3 DEF Offered, Reported, NoReport
    <3>5. QED
      BY <3>2, <3>4 DEF Atomic!Next, Atomic!Conclude
  <2>5. QED
    BY <1>4, <2>1, <2>2, <2>3, <2>4 DEF AfterWrite
<1>5. QED
  <2>1. \/ /\ Stored' = Stored /\ writing'.payload = PayloadOf
           /\ UNCHANGED <<active, pc, booting, started, request, report, rebootDue,
                          runtime, node>>
        \/ \E ok \in BOOLEAN :
               /\ writing' = NoWrite
               /\ (Stored' = Stored /\ ~ok) \/ Stored' = PayloadOf
               /\ ok => active'.pending = PayloadOf.pending
               /\ ~ok => active' = active
               /\ AfterWrite(ok)
    BY <1>1, WriteCases
  <2>2. QED
    BY <2>1, <1>3, <1>4

(* A boot brings nothing else into force, and loses at most a report.        *)
LEMMA BootIsAtomic ==
    ASSUME SettingsInv, BootStep
    PROVE  Atomic!Next \/ UNCHANGED AtomicVars
<1>1. UNCHANGED flash /\ rui' = rui
  BY DEF BootStep, PowerLoss, StorePowerLoss, PowerOn, Load, Identify, Unidentified,
         Configure, storeVars
<1>2. Stored' = Stored
  BY <1>1 DEF Stored, Recorded, Latest, Valid, Blank
<1>3. InForce' = InForce
  BY <1>1, <1>2 DEF InForce
<1>4. CASE PowerLoss
  <2>1. Offered' = {} /\ Reported' = "none"
    BY <1>4 DEF PowerLoss, Offered, Reported, NoReport
  <2>2. QED
    BY <1>3, <2>1 DEF Atomic!Next, Atomic!PowerLoss
<1>5. CASE PowerOn
  <2>1. pc = "off" /\ pc' \in {"apply", "identify"} /\ booting' /\ report' = report
    BY <1>5 DEF PowerOn
  <2>2. Offered = {} /\ Offered' = {} /\ Reported' = Reported
    BY <2>1 DEF Offered, Reported
  <2>3. QED
    BY <1>3, <2>2 DEF AtomicVars
<1>6. CASE Identify
  <2>1. pc = "identify" /\ report' = NoReport /\ pc' \in {"migrate", "configure"}
    BY <1>6 DEF Identify
  <2>2. Offered = {} /\ Reported' = "none"
    BY <2>1 DEF Offered, Reported
  <2>3. CASE pc' = "configure"
    <3>1. Offered' = {}
      BY <2>3 DEF Offered
    <3>2. QED
      BY <1>3, <2>2, <3>1 DEF Atomic!Next, Atomic!PowerLoss
  <2>4. CASE pc' = "migrate"
    <3>1. Offered' = {[config |-> runtime', tuple |-> rui']}
      BY <2>4 DEF Offered
    <3>2. Offered' \subseteq States
      <4>1. SettingsInv'
        BY BootStepInv
      <4>2. runtime' \in Configs /\ rui' \in Tuples
        BY <4>1 DEF SettingsInv, TypeOK
      <4>3. QED
        BY <3>1, <4>2 DEF States
    <3>3. QED
      BY <1>3, <2>2, <3>1, <3>2 DEF Atomic!Next, Atomic!Offer, States
  <2>5. QED
    BY <2>1, <2>3, <2>4
<1>7. CASE Unidentified \/ Configure
  <2>1. pc \in {"identify", "configure"} /\ pc' = "run" /\ report' = report
    BY <1>7 DEF Unidentified, Configure, BootFailed
  <2>2. Offered = {} /\ Offered' = {} /\ Reported' = Reported
    BY <2>1 DEF Offered, Reported
  <2>3. QED
    BY <1>3, <2>2 DEF AtomicVars
<1>8. QED
  BY <1>4, <1>5, <1>6, <1>7 DEF BootStep

(* The portal offers a save, or refuses it.                                *)
LEMMA PortalIsAtomic ==
    ASSUME SettingsInv, PortalStep
    PROVE  Atomic!Next \/ UNCHANGED AtomicVars
<1>1. UNCHANGED <<flash, rui>> /\ pc = "run"
  BY DEF PortalStep, FormRead, PortalSave, PortalRefuse, storeVars
<1>2. Stored' = Stored
  BY <1>1 DEF Stored, Recorded, Latest, Valid, Blank
<1>3. InForce' = InForce /\ Offered = {}
  BY <1>1, <1>2 DEF InForce, Offered
<1>4. CASE FormRead
  <2>1. Offered' = {} /\ Reported' = Reported
    BY <1>1, <1>4 DEF FormRead, Offered, Reported
  <2>2. QED
    BY <1>3, <2>1 DEF AtomicVars
<1>5. CASE PortalRefuse
  <2>1. Offered' = {} /\ Reported' = "failed"
    BY <1>1, <1>5 DEF PortalRefuse, Offered, Reported, NoReport
  <2>2. QED
    BY <1>3, <2>1 DEF Atomic!Next, Atomic!Refuse
<1>6. CASE PortalSave
  <2>1. pc' \in {"stage", "save"} /\ report' = NoReport
    BY <1>6 DEF PortalSave
  <2>2. /\ Offered' = {[config |-> request'.config, tuple |-> request'.tuple]}
        /\ Reported' = "none"
    BY <2>1 DEF Offered, Reported
  <2>3. SettingsInv'
    BY PortalStepInv
  <2>4. request'.config \in Configs /\ request'.tuple \in Tuples
    BY <2>3 DEF SettingsInv, TypeOK
  <2>5. QED
    BY <1>3, <2>2, <2>4 DEF Atomic!Next, Atomic!Offer
<1>7. QED
  BY <1>4, <1>5, <1>6 DEF PortalStep

(* A setter of RUI is called only for the tuple that is staged.             *)
LEMMA OnlyStagedApplied ==
    ASSUME SettingsInv, [Next]_vars, rui' # rui
    PROVE  Stored.pending = node
<1>1. CASE Apply
  BY <1>1 DEF Apply, SettingsInv, Phase
<1>2. CASE ~Apply
  <2>1. UNCHANGED rui
    BY <1>2 DEF vars, appVars, Next, PowerLoss, PowerOn, Applied, Stage, Save, Commit,
                Migrate, WriteRecord, Identify, Unidentified, Configure, FormRead,
                PortalSave, PortalRefuse
  <2>2. QED
    BY <2>1
<1>3. QED
  BY <1>1, <1>2

-----------------------------------------------------------------------------
(* No tuple is ever mixed: what is staged, in a slot, in RAM or on its way,   *)
(* was asked for as a whole, and so is what RUI holds whenever nothing is    *)
(* staged for RAM or for a boot to see.                                    *)

Whole == asked \cup {NoTuple}

WholeInv ==
    /\ \A s \in Slots : Valid(s) => flash[s].payload.pending \in Whole
    /\ active.pending \in Whole
    /\ pc = "stage" => request.tuple \in asked
    /\ Stored.pending = NoTuple => rui \in asked
    /\ pc # "off" /\ active.pending = NoTuple => rui \in asked

(* It holds at the start.                                                  *)
LEMMA InitWhole == Init => WholeInv
<1> SUFFICES ASSUME Init PROVE WholeInv
  OBVIOUS
<1>1. \A s \in Slots : Valid(s) => flash[s].payload.pending \in Whole
  BY DEF Init, Whole
<1>2. rui \in asked /\ active.pending \in Whole /\ pc = "off"
  BY DEF Init, StoreInit, Forgotten, Whole
<1>3. QED
  BY <1>1, <1>2 DEF WholeInv

(* The payload of a write is whole.                                        *)
LEMMA PayloadIsWhole ==
    ASSUME WholeInv, pc \in WritePhases
    PROVE  PayloadOf.pending \in Whole
BY DEF WholeInv, WritePhases, PayloadOf, StagePayload, SavePayload, CommitPayload,
       MigratePayload, Whole

(* What a boot finds staged is whole.                                      *)
LEMMA StoredIsWhole ==
    ASSUME SettingsInv, WholeInv
    PROVE  Stored.pending \in Whole
<1>1. CASE Recorded
  <2>1. Latest \in Slots /\ Valid(Latest)
    BY <1>1 DEF Recorded, Latest, Slots
  <2>2. QED
    BY <1>1, <2>1 DEF Stored, WholeInv
<1>2. CASE ~Recorded
  BY <1>2 DEF Stored, Blank, Whole
<1>3. QED
  BY <1>1, <1>2

(* A write puts whole tuples into the slots.                               *)
LEMMA WriteKeepsWhole ==
    ASSUME SettingsInv, WholeInv, pc \in WritePhases, WriteRecord(PayloadOf)
    PROVE  \A s \in Slots : Valid(s)' => flash'[s].payload.pending \in Whole
<1>0. flash \in [Slots -> {Torn} \cup [gen : Generations, payload : Payloads]]
  BY DEF SettingsInv, StoreInv, StoreTypeOK
<1>1. CASE WriteErase(PayloadOf)
  <2>1. \A s \in Slots : flash'[s] = flash[s] \/ flash'[s] = Torn
    BY <1>0, <1>1 DEF WriteErase
  <2>2. QED
    BY <2>1 DEF WholeInv, Valid, Torn
<1>2. CASE UNCHANGED flash
  BY <1>2 DEF WholeInv, Valid
<1>3. CASE \E ok \in BOOLEAN : WriteProgram(ok)
  <2>1. \A s \in Slots : flash'[s] = flash[s] \/ flash'[s].payload = writing.payload
    BY <1>0, <1>3 DEF WriteProgram
  <2>2. writing # NoWrite
    BY <1>3 DEF WriteProgram
  <2>3. writing.payload.pending \in Whole
    BY <2>2, PayloadIsWhole DEF SettingsInv, Phase
  <2>4. QED
    BY <2>1, <2>3 DEF WholeInv, Valid
<1>4. QED
  BY <1>1, <1>2, <1>3 DEF WriteRecord, WriteSame, WriteRefused, storeVars

(* Writing a record keeps it: the tuple is only unstaged once RUI holds it.   *)
LEMMA WriteWhole ==
    ASSUME SettingsInv, WholeInv, Stage \/ Save \/ Commit \/ Migrate
    PROVE  WholeInv'
<1>1. pc \in WritePhases /\ WriteRecord(PayloadOf)
  BY DEF Stage, Save, Commit, Migrate, PayloadOf, WritePhases
<1>2. /\ UNCHANGED <<rui, asked>>
      /\ \A s \in Slots : Valid(s)' => flash'[s].payload.pending \in Whole
  BY <1>1, WriteCases, WriteKeepsWhole
<1>3. Whole' = Whole
  BY <1>2 DEF Whole
<1>4. PayloadOf.pending \in Whole /\ NoTuple \notin Tuples
  BY <1>1, PayloadIsWhole, RecordFacts
<1>5. /\ pc = "commit" => rui \in asked
      /\ PayloadOf.pending = NoTuple => rui \in asked
  <2>1. CASE pc = "commit"
    BY <2>1, <1>4 DEF SettingsInv, TypeOK, Phase, WholeInv, Whole
  <2>2. CASE pc = "stage"
    BY <2>2, <1>4 DEF SettingsInv, TypeOK, PayloadOf, StagePayload
  <2>3. CASE pc \in {"save", "migrate"}
    BY <2>3 DEF WholeInv, PayloadOf, SavePayload, MigratePayload
  <2>4. QED
    BY <1>1, <2>1, <2>2, <2>3 DEF WritePhases
<1>6. CASE /\ Stored' = Stored /\ UNCHANGED <<active, pc, request>>
  BY <1>2, <1>3, <1>6 DEF WholeInv, Valid
<1>7. CASE \E ok \in BOOLEAN :
               /\ (Stored' = Stored /\ ~ok) \/ Stored' = PayloadOf
               /\ ok => active'.pending = PayloadOf.pending
               /\ ~ok => active' = active
               /\ AfterWrite(ok)
  <2>1. active'.pending = active.pending \/ active'.pending = PayloadOf.pending
    BY <1>7
  <2>2. Stored' = Stored \/ Stored' = PayloadOf
    BY <1>7
  <2>3. pc' # "stage"
    BY <1>7 DEF AfterWrite, AfterStage, AfterSave, AfterCommit, AfterMigrate, Answer,
                BootFailed
  <2>4. pc # "off"
    BY <1>1 DEF WritePhases
  <2>5. QED
    BY <1>2, <1>3, <1>4, <1>5, <2>1, <2>2, <2>3, <2>4 DEF WholeInv, Valid
<1>8. QED
  BY <1>1, <1>6, <1>7, WriteCases

(* So do the steps that write no record.                                   *)
LEMMA OtherWhole ==
    ASSUME SettingsInv, WholeInv, Apply \/ Applied \/ BootStep \/ PortalStep
    PROVE  WholeInv'
<1>1. /\ UNCHANGED flash /\ asked \subseteq asked'
      /\ UNCHANGED active \/ active' = Forgotten \/ active'.pending = Stored.pending
  BY DEF Apply, Applied, BootStep, PortalStep, PowerLoss, StorePowerLoss, PowerOn, Load,
         Identify, Unidentified, Configure, FormRead, PortalSave, PortalRefuse, storeVars
<1>2. Stored' = Stored /\ Stored.pending \in Whole
  BY <1>1, StoredIsWhole DEF Stored, Recorded, Latest, Valid, Blank
<1>3. \A x \in Whole : x \in Whole'
  BY <1>1 DEF Whole
<1>4. /\ \A s \in Slots : Valid(s)' => flash'[s].payload.pending \in Whole'
      /\ active'.pending \in Whole'
  BY <1>1, <1>2, <1>3 DEF WholeInv, Valid, Forgotten, Whole
<1>5. CASE Apply \/ Applied
  <2>1. /\ pc = "apply" /\ pc' # "stage" /\ UNCHANGED active
    BY <1>5 DEF Apply, Applied, Unapplied, BootFailed, Answer, storeVars
  <2>2. /\ Stored.pending # NoTuple /\ active.pending # NoTuple
    BY <2>1, RecordFacts DEF SettingsInv, TypeOK, Phase
  <2>3. QED
    BY <1>2, <1>4, <2>1, <2>2 DEF WholeInv, Valid
<1>6. CASE BootStep \/ PortalStep
  <2>1. rui' = rui /\ (pc = "off" => active'.pending = Stored.pending)
    BY <1>6 DEF BootStep, PortalStep, PowerLoss, PowerOn, Load, Identify, Unidentified,
                Configure, FormRead, PortalSave, PortalRefuse
  <2>2. pc' = "stage" => request'.tuple \in asked'
    BY <1>6 DEF BootStep, PortalStep, PowerLoss, PowerOn, Identify, Unidentified,
                Configure, FormRead, PortalSave, PortalRefuse, BootFailed, SettingsInv,
                Phase
  <2>3. pc # "off" => UNCHANGED active \/ pc' = "off"
    BY <1>6 DEF BootStep, PortalStep, PowerLoss, PowerOn, Identify, Unidentified,
                Configure, FormRead, PortalSave, PortalRefuse, storeVars
  <2>4. QED
    BY <1>1, <1>2, <1>4, <2>1, <2>2, <2>3 DEF WholeInv, Valid
<1>7. QED
  BY <1>5, <1>6

(* Every step keeps it.                                                    *)
LEMMA StepWhole == SettingsInv /\ WholeInv /\ [Next]_vars => WholeInv'
<1>1. SettingsInv /\ WholeInv /\ UNCHANGED vars => WholeInv'
  BY DEF vars, storeVars, appVars, WholeInv, Whole, Valid, Stored, Recorded, Latest, Blank
<1>2. Next <=> \/ BootStep \/ PortalStep \/ Apply \/ Applied
               \/ Stage \/ Save \/ Commit \/ Migrate
  BY DEF Next, BootStep, PortalStep
<1>3. QED
  BY <1>1, <1>2, WriteWhole, OtherWhole

-----------------------------------------------------------------------------
(* The revision.  A revision that RAM or a page holds is compared for        *)
(* equality only, and the generations wrap: it identifies the settings as   *)
(* long as fewer records are written in the meantime than there are          *)
(* generations.  Two records at most are written for a save, one to commit   *)
(* what was staged before the first, and one to migrate.                   *)

(* How many records a generation is behind another.                        *)
Behind(g, latest) == IF latest >= g THEN latest - g ELSE latest - g + 2 * HalfRange

(* The records that may still be written.                                  *)
Uncommitted == IF Stored.pending # NoTuple THEN 1 ELSE 0
Unmigrated == IF Stored.config.network = NoTuple THEN 1 ELSE 0
UnderWay == IF pc \in {"stage", "save"} THEN 2 ELSE 0
Left == 2 * (MaxSaves - saves) + Uncommitted + Unmigrated + UnderWay

Budget == 2 * MaxSaves + 2

(* No revision that is still compared is as old as the range of generations. *)
WrapInv ==
    /\ writing # NoWrite => writing.gen = Following(StoredGen)
    /\ pc # "off" => Behind(active.gen, StoredGen) + Left <= Budget
    /\ form # NoForm => Behind(form.revision, StoredGen) + Left <= Budget

(* The revision in RAM is that of the latest record while RAM and record     *)
(* agree; a failed write leaves it behind.                                 *)
IdentityInv ==
    /\ pc \in {"apply", "commit", "identify", "migrate", "configure"} =>
           active.gen = StoredGen
    /\ pc # "off" /\ active.gen = StoredGen =>
           /\ active.pending = Stored.pending
           /\ runtime.setting = Stored.config.setting
           /\ started => runtime = Stored.config
    /\ pc \in {"identify", "configure"} => runtime = Stored.config
    /\ booting \/ pc = "off" => ~started
    /\ pc \in {"stage", "save"} => request.config.network # NoTuple
    /\ pc = "migrate" => Stored.config.network = NoTuple /\ runtime.network # NoTuple

(* A page shows the settings of its revision.                              *)
PageInv ==
    form # NoForm =>
        /\ form.revision = StoredGen => form.setting = Stored.config.setting
        /\ pc # "off" /\ form.revision = active.gen => form.setting = runtime.setting

RevisionInv == WrapInv /\ IdentityInv /\ PageInv

FewSaves == MaxSaves + 1 < HalfRange

(* What is left to write is a number within the budget.                    *)
LEMMA LeftInBudget ==
    SettingsInv => /\ Left \in Nat /\ MaxSaves - saves \in Nat
                   /\ StoredGen \in Generations
                   /\ UnderWay = 0 => Left <= Budget
<1> SUFFICES ASSUME SettingsInv
             PROVE  /\ Left \in Nat /\ MaxSaves - saves \in Nat
                    /\ StoredGen \in Generations
                    /\ UnderWay = 0 => Left <= Budget
  OBVIOUS
<1>0. StoredGen \in Generations
  BY StoredType DEF SettingsInv, StoreInv
<1>1. saves \in Nat /\ MaxSaves \in Nat /\ saves <= MaxSaves
  BY SettingsAssumption DEF SettingsInv, TypeOK
<1>2. /\ Uncommitted \in Nat /\ Uncommitted <= 1 /\ Unmigrated \in Nat /\ Unmigrated <= 1
      /\ UnderWay \in Nat
  BY DEF Uncommitted, Unmigrated, UnderWay
<1>3. QED
  BY <1>0, <1>1, <1>2, SMT DEF Left, Budget

(* So it is after a step.                                                  *)
LEMMA LeftThen ==
    SettingsInv' => /\ Left' \in Nat /\ StoredGen' \in Generations
                    /\ UnderWay' = 0 => Left' <= Budget
<1>1. (SettingsInv => /\ Left \in Nat /\ StoredGen \in Generations
                      /\ UnderWay = 0 => Left <= Budget)'
  <2>1. SettingsInv => /\ Left \in Nat /\ StoredGen \in Generations
                       /\ UnderWay = 0 => Left <= Budget
    BY LeftInBudget
  <2>2. QED
    BY <2>1, PTL
<1>2. QED
  BY <1>1 DEF Budget

(* A generation is so many records behind another, none behind itself.       *)
LEMMA BehindType ==
    ASSUME NEW g \in Generations, NEW latest \in Generations
    PROVE  Behind(g, latest) \in Nat /\ (g = latest => Behind(g, latest) = 0)
BY StoreAssumption, SMT DEF Behind, Generations

(* One more record is written: a generation that was not a whole round       *)
(* behind is one further behind, and not that of the new record.           *)
LEMMA OneFurther ==
    ASSUME NEW g \in Generations, NEW latest \in Generations,
           Behind(g, latest) < 2 * HalfRange - 1
    PROVE  /\ Behind(g, Following(latest)) = Behind(g, latest) + 1
           /\ g # Following(latest)
BY StoreAssumption, SMT DEF Behind, Generations, Following

(* How a step of writeRecord moves the generation: the record is being       *)
(* written, was not written, was written, or was there already; RAM takes it  *)
(* up exactly if success is reported.                                      *)
LEMMA WriteMoves ==
    ASSUME SettingsInv, WrapInv, pc \in WritePhases, WriteRecord(PayloadOf)
    PROVE  \/ /\ Stored' = Stored /\ StoredGen' = StoredGen
              /\ writing'.gen = Following(StoredGen)
              /\ UNCHANGED <<active, pc, booting, started, request, report,
                             rebootDue, runtime, node>>
           \/ \E ok \in BOOLEAN :
                  /\ writing' = NoWrite /\ AfterWrite(ok)
                  /\ \/ Stored' = Stored /\ StoredGen' = StoredGen
                     \/ Stored' = PayloadOf /\ StoredGen' = Following(StoredGen)
                  /\ ok => /\ Stored' = PayloadOf
                           /\ active' = [gen |-> StoredGen', pending |-> PayloadOf.pending]
                  /\ ~ok => active' = active
<1>1. PayloadOf \in Payloads
  BY PayloadTypes DEF PayloadOf, SettingsInv
<1>2. StoreInv /\ (writing # NoWrite => writing.payload = PayloadOf)
  BY DEF SettingsInv, Phase
<1>3. CASE /\ WriteErase(PayloadOf)
           /\ UNCHANGED <<pc, booting, started, request, report, rebootDue, runtime, node>>
  <2>1. Stored' = Stored /\ StoredGen' = StoredGen /\ UNCHANGED active
    BY <1>1, <1>2, <1>3, EraseKeepsStored DEF WriteErase
  <2>2. NextGen = Following(StoredGen)
    <3>1. 1 = Following(0)
      BY StoreAssumption DEF Following
    <3>2. QED
      BY <3>1 DEF NextGen, StoredGen
  <2>3. writing'.gen = Following(StoredGen)
    BY <1>3, <2>2 DEF WriteErase
  <2>4. QED
    BY <1>3, <2>1, <2>3
<1>4. ASSUME NEW ok \in BOOLEAN, AfterWrite(ok),
             \/ ok /\ WriteSame(PayloadOf)
             \/ ~ok /\ WriteRefused(PayloadOf)
             \/ WriteProgram(ok)
      PROVE  /\ writing' = NoWrite
             /\ \/ Stored' = Stored /\ StoredGen' = StoredGen
                \/ Stored' = PayloadOf /\ StoredGen' = Following(StoredGen)
             /\ ok => /\ Stored' = PayloadOf
                      /\ active' = [gen |-> StoredGen', pending |-> PayloadOf.pending]
             /\ ~ok => active' = active
  <2>1. CASE ok /\ WriteSame(PayloadOf)
    BY <2>1 DEF WriteSame, Stored, StoredGen, Recorded, Latest, Valid
  <2>2. CASE ~ok /\ WriteRefused(PayloadOf)
    BY <2>2 DEF WriteRefused, storeVars, Stored, StoredGen, Recorded, Latest, Valid, Blank
  <2>3. CASE WriteProgram(ok)
    <3>1. writing # NoWrite /\ writing' = NoWrite /\ active' = Adopted(ok)
      BY <2>3 DEF WriteProgram
    <3>2. writing.payload = PayloadOf /\ writing.gen = Following(StoredGen)
      BY <1>2, <3>1 DEF WrapInv
    <3>3. \/ Stored' = Stored /\ StoredGen' = StoredGen /\ ~ok
          \/ Stored' = writing.payload /\ StoredGen' = writing.gen
      BY <1>2, <2>3, ProgramStores
    <3>4. QED
      BY <3>1, <3>2, <3>3 DEF Adopted
  <2>4. QED
    BY <1>4, <2>1, <2>2, <2>3
<1>5. QED
  BY <1>3, <1>4 DEF WriteRecord, AfterWrite

(* Where the program goes when a record was written or failed to be, and     *)
(* what RAM holds then.                                                    *)
LEMMA AfterWriteMoves ==
    ASSUME SettingsInv, IdentityInv, NEW ok \in BOOLEAN, AfterWrite(ok)
    PROVE  /\ pc' \in {"run", "apply", "identify", "configure"}
           /\ ~ok => pc' = "run" /\ runtime' = runtime
           /\ ok => runtime' = PayloadOf.config
           /\ started' = started
           /\ booting' => booting
<1>1. CASE AfterStage(ok)
  BY <1>1 DEF AfterStage, Answer, PayloadOf, StagePayload
<1>2. CASE AfterSave(ok)
  BY <1>2 DEF AfterSave, Answer, PayloadOf, SavePayload
<1>3. CASE AfterCommit(ok)
  BY <1>3 DEF AfterCommit, Answer, BootFailed, PayloadOf, CommitPayload
<1>4. CASE AfterMigrate(ok)
  BY <1>4 DEF AfterMigrate, PayloadOf, MigratePayload
<1>5. QED
  BY <1>1, <1>2, <1>3, <1>4 DEF AfterWrite

(* A record that is written is one fewer to write: a save writes two at      *)
(* most, a commit takes back what was staged, and settings are migrated once. *)
LEMMA WriteSpends ==
    ASSUME SettingsInv, IdentityInv, pc \in WritePhases, saves' = saves,
           pc' \in {"run", "apply", "identify", "configure"}
    PROVE  /\ Stored' = Stored => Left' <= Left
           /\ Stored' = PayloadOf => Left' + 1 <= Left
<1>1. /\ Uncommitted \in {0, 1} /\ Unmigrated \in {0, 1} /\ UnderWay \in {0, 2}
      /\ Uncommitted' \in {0, 1} /\ Unmigrated' \in {0, 1} /\ UnderWay' = 0
      /\ MaxSaves \in Nat /\ saves \in Nat
  BY SettingsAssumption
     DEF Uncommitted, Unmigrated, UnderWay, SettingsInv, TypeOK
<1>2. CASE Stored' = Stored
  <2>1. Uncommitted' = Uncommitted /\ Unmigrated' = Unmigrated
    BY <1>2 DEF Uncommitted, Unmigrated
  <2>2. Left' <= Left
    BY <1>1, <2>1, SMT DEF Left
  <2>3. Stored' = PayloadOf => Left' + 1 <= Left
    <3>1. CASE pc \in {"stage", "save"}
      BY <1>1, <2>1, <3>1, SMT DEF Left, UnderWay
    <3>2. CASE pc = "commit"
      BY <1>2, <3>2, RecordFacts
         DEF SettingsInv, Phase, TypeOK, PayloadOf, CommitPayload
    <3>3. CASE pc = "migrate"
      BY <1>2, <3>3 DEF IdentityInv, PayloadOf, MigratePayload
    <3>4. QED
      BY <3>1, <3>2, <3>3 DEF WritePhases
  <2>4. QED
    BY <2>2, <2>3
<1>3. CASE Stored' = PayloadOf /\ Stored' # Stored
  <2>1. CASE pc \in {"stage", "save"}
    <3>1. Unmigrated' = 0
      BY <1>3, <2>1 DEF Unmigrated, IdentityInv, PayloadOf, StagePayload, SavePayload
    <3>2. UnderWay = 2
      BY <2>1 DEF UnderWay
    <3>3. /\ Uncommitted \in Nat /\ Unmigrated \in Nat
          /\ Uncommitted' \in Nat /\ Uncommitted' <= 1
      BY <1>1
    <3>4. MaxSaves - saves \in Nat
      BY LeftInBudget
    <3>5. /\ Left = 2 * (MaxSaves - saves) + Uncommitted + Unmigrated + 2
          /\ Left' = 2 * (MaxSaves - saves) + Uncommitted' + 0 + 0
      BY <1>1, <3>1, <3>2 DEF Left
    <3>6. \A m, u, v, w \in Nat :
              v <= 1 => 2 * m + v + 0 + 0 + 1 <= 2 * m + u + w + 2
      OBVIOUS
    <3>7. Left' + 1 <= Left
      BY <3>3, <3>4, <3>5, <3>6
    <3>8. QED
      BY <1>3, <3>7
  <2>2. CASE pc = "commit"
    <3>1. Uncommitted' = 0 /\ Uncommitted = 1 /\ Unmigrated' = Unmigrated
      BY <1>3, <2>2, RecordFacts
         DEF SettingsInv, Phase, TypeOK, PayloadOf, CommitPayload, Uncommitted, Unmigrated
    <3>2. QED
      BY <1>1, <1>3, <3>1, SMT DEF Left
  <2>3. CASE pc = "migrate"
    <3>1. Uncommitted' = 0 /\ Unmigrated = 1 /\ Unmigrated' = 0
      BY <1>3, <2>3
         DEF IdentityInv, SettingsInv, Phase, PayloadOf, MigratePayload, Uncommitted,
             Unmigrated
    <3>2. QED
      BY <1>1, <1>3, <3>1, SMT DEF Left
  <2>4. QED
    BY <2>1, <2>2, <2>3 DEF WritePhases
<1>4. QED
  BY <1>2, <1>3

(* Writing a record keeps the revision what it is.                         *)
LEMMA WriteRevision ==
    ASSUME SettingsInv, RevisionInv, FewSaves, Stage \/ Save \/ Commit \/ Migrate
    PROVE  RevisionInv'
<1>1. pc \in WritePhases /\ WriteRecord(PayloadOf)
  BY DEF Stage, Save, Commit, Migrate, PayloadOf, WritePhases
<1>2. UNCHANGED <<rui, field, form, saves, asked>> /\ pc # "off"
  BY <1>1 DEF WriteRecord, WritePhases
<1>3. active.gen \in Generations /\ form.revision \in Generations
  BY DEF SettingsInv, TypeOK, StoreTypeOK
<1>4. /\ Behind(active.gen, StoredGen) \in Nat /\ Behind(form.revision, StoredGen) \in Nat
      /\ Left \in Nat /\ Budget < 2 * HalfRange /\ Budget \in Nat
  BY <1>3, BehindType, LeftInBudget, SettingsAssumption, StoreAssumption
     DEF FewSaves, Budget
<1>5. CASE /\ Stored' = Stored /\ StoredGen' = StoredGen
           /\ writing'.gen = Following(StoredGen)
           /\ UNCHANGED <<active, pc, booting, started, request, report, rebootDue,
                          runtime, node>>
  <2>1. Left' = Left
    BY <1>2, <1>5 DEF Left, Uncommitted, Unmigrated, UnderWay
  <2>2. WrapInv'
    BY <1>2, <1>5, <2>1 DEF RevisionInv, WrapInv, Behind, Budget, Following
  <2>3. IdentityInv' /\ PageInv'
    BY <1>2, <1>5 DEF RevisionInv, IdentityInv, PageInv
  <2>4. QED
    BY <2>2, <2>3 DEF RevisionInv
<1>6. ASSUME NEW ok \in BOOLEAN, writing' = NoWrite, AfterWrite(ok),
             \/ Stored' = Stored /\ StoredGen' = StoredGen
             \/ Stored' = PayloadOf /\ StoredGen' = Following(StoredGen),
             ok => /\ Stored' = PayloadOf
                   /\ active' = [gen |-> StoredGen', pending |-> PayloadOf.pending],
             ~ok => active' = active
      PROVE  RevisionInv'
  <2>1. /\ pc' \in {"run", "apply", "identify", "configure"}
        /\ ~ok => pc' = "run" /\ runtime' = runtime
        /\ ok => runtime' = PayloadOf.config
        /\ started' = started /\ (booting' => booting)
    BY <1>6, AfterWriteMoves DEF RevisionInv
  <2>2. /\ Stored' = Stored => Left' <= Left
        /\ Stored' = PayloadOf => Left' + 1 <= Left
    BY <1>1, <1>2, <2>1, WriteSpends DEF RevisionInv
  <2>3. SettingsInv'
    BY WriteStep
  <2>4. Left' \in Nat /\ Left' <= Budget
    BY <2>1, <2>3, LeftThen DEF UnderWay
  <2>5. /\ Behind(active.gen, StoredGen) + Left <= Budget
        /\ form # NoForm => Behind(form.revision, StoredGen) + Left <= Budget
    BY <1>2 DEF RevisionInv, WrapInv
  <2>6. ASSUME NEW g \in Generations, Behind(g, StoredGen) + Left <= Budget
        PROVE  /\ Behind(g, StoredGen') + Left' <= Budget
               /\ StoredGen' = StoredGen \/ g # StoredGen'
    <3>1. Behind(g, StoredGen) \in Nat /\ StoredGen \in Generations
      BY BehindType, LeftInBudget
    <3>2. CASE Stored' = Stored /\ StoredGen' = StoredGen
      BY <1>4, <2>2, <2>4, <2>6, <3>1, <3>2
    <3>3. CASE Stored' = PayloadOf /\ StoredGen' = Following(StoredGen)
      <4>1. Behind(g, StoredGen) < 2 * HalfRange - 1
        <5>1. HalfRange \in Nat
          BY StoreAssumption
        <5>2. Left' + 1 <= Left
          BY <2>2, <3>3
        <5>3. QED
          BY <1>4, <2>4, <2>6, <3>1, <5>1, <5>2, SMT
      <4>2. Behind(g, StoredGen') = Behind(g, StoredGen) + 1 /\ g # StoredGen'
        BY <3>1, <3>3, <4>1, OneFurther
      <4>3. QED
        BY <1>4, <2>2, <2>4, <2>6, <3>1, <3>3, <4>2
    <3>4. QED
      BY <1>6, <3>2, <3>3
  <2>7. Behind(active'.gen, StoredGen') + Left' <= Budget
    <3>1. CASE ok
      <4>1. active'.gen = StoredGen'
        BY <1>6, <3>1
      <4>2. Behind(active'.gen, StoredGen') = 0
        BY <2>3, <4>1, LeftThen, BehindType
      <4>3. QED
        BY <2>4, <4>2
    <3>2. CASE ~ok
      <4>1. active'.gen = active.gen
        BY <1>6, <3>2
      <4>2. Behind(active.gen, StoredGen') + Left' <= Budget
        BY <1>3, <2>5, <2>6
      <4>3. QED
        BY <4>1, <4>2
    <3>3. QED
      BY <3>1, <3>2
  <2>8. WrapInv'
    <3>1. form # NoForm => Behind(form.revision, StoredGen') + Left' <= Budget
      BY <1>3, <2>5, <2>6
    <3>2. form' = form /\ Budget' = Budget
      BY <1>2 DEF Budget
    <3>3. QED
      BY <1>6, <2>7, <3>1, <3>2 DEF WrapInv
  <2>9. IdentityInv'
    <3>1. CASE ok
      <4>1. /\ active'.gen = StoredGen' /\ active'.pending = Stored'.pending
            /\ runtime' = Stored'.config
        BY <1>6, <2>1, <3>1 DEF PayloadOf, StagePayload, SavePayload, CommitPayload,
                                MigratePayload
      <4>2. QED
        BY <1>2, <2>1, <4>1 DEF RevisionInv, IdentityInv
    <3>2. CASE ~ok /\ StoredGen' = StoredGen /\ Stored' = Stored
      <4>1. pc' = "run" /\ runtime' = runtime /\ active' = active
        BY <1>6, <2>1, <3>2
      <4>2. QED
        BY <1>2, <2>1, <3>2, <4>1 DEF RevisionInv, IdentityInv
    <3>3. CASE ~ok /\ StoredGen' = Following(StoredGen)
      <4>1. pc' = "run" /\ active' = active
        BY <1>6, <2>1, <3>3
      <4>2. Following(StoredGen) # StoredGen
        BY StoreAssumption, StoredType DEF Following, SettingsInv, StoreInv, Generations
      <4>3. active'.gen # StoredGen'
        BY <1>3, <2>5, <2>6, <3>3, <4>1, <4>2
      <4>4. QED
        BY <1>2, <2>1, <4>1, <4>3 DEF RevisionInv, IdentityInv
    <3>4. QED
      BY <1>6, <3>1, <3>2, <3>3
  <2>10. PageInv'
    <3>1. CASE form = NoForm
      BY <1>2, <3>1 DEF PageInv
    <3>2. CASE form # NoForm
      <4>1. StoredGen' = StoredGen \/ form.revision # StoredGen'
        BY <1>3, <2>5, <2>6, <3>2
      <4>2. form'.revision = StoredGen' => form'.setting = Stored'.config.setting
        <5>1. CASE StoredGen' = StoredGen /\ Stored' = Stored
          BY <1>2, <3>2, <5>1 DEF RevisionInv, PageInv
        <5>2. CASE StoredGen' = Following(StoredGen)
          <6>1. Following(StoredGen) # StoredGen
            BY StoreAssumption, StoredType
              DEF Following, SettingsInv, StoreInv, Generations
          <6>2. QED
            BY <1>2, <4>1, <5>2, <6>1
        <5>3. QED
          BY <1>6, <5>1, <5>2
      <4>3. CASE ok
        <5>1. active'.gen = StoredGen' /\ runtime' = Stored'.config
          BY <1>6, <2>1, <4>3
        <5>2. QED
          BY <4>2, <5>1 DEF PageInv
      <4>4. CASE ~ok
        <5>1. runtime' = runtime /\ active' = active
          BY <1>6, <2>1, <4>4
        <5>2. QED
          BY <1>2, <3>2, <4>2, <5>1 DEF RevisionInv, PageInv
      <4>5. QED
        BY <4>3, <4>4
    <3>3. QED
      BY <3>1, <3>2
  <2>11. QED
    BY <2>8, <2>9, <2>10 DEF RevisionInv
<1>7. QED
  <2>1. WrapInv
    BY DEF RevisionInv
  <2>2. QED
    BY <1>1, <1>5, <1>6, <2>1, WriteMoves

(* So do the setters, which write no record and leave the revision alone.    *)
LEMMA ApplyRevision ==
    ASSUME SettingsInv, RevisionInv, Apply \/ Applied
    PROVE  RevisionInv'
<1>1. /\ UNCHANGED <<storeVars, runtime, node, form, saves, asked>> /\ pc = "apply"
      /\ pc' \in {"apply", "commit", "run"} /\ started' = started
      /\ booting' => booting
  BY DEF Apply, Applied, Unapplied, BootFailed, Answer
<1>2. Stored' = Stored /\ StoredGen' = StoredGen
  BY <1>1 DEF storeVars, Stored, StoredGen, Recorded, Latest, Valid, Blank
<1>3. Left' = Left
  BY <1>1, <1>2 DEF Left, Uncommitted, Unmigrated, UnderWay
<1>4. WrapInv'
  BY <1>1, <1>2, <1>3 DEF RevisionInv, WrapInv, Behind, Budget, storeVars, Following
<1>5. IdentityInv' /\ PageInv'
  BY <1>1, <1>2 DEF RevisionInv, IdentityInv, PageInv, storeVars, SettingsInv, Phase
<1>6. QED
  BY <1>4, <1>5 DEF RevisionInv

(* A power loss forgets the revision, and a boot takes up that of the latest *)
(* record together with its settings.                                      *)
LEMMA BootRevision ==
    ASSUME SettingsInv, RevisionInv, BootStep
    PROVE  RevisionInv'
<1>1. UNCHANGED <<flash, form, saves>>
  BY DEF BootStep, PowerLoss, StorePowerLoss, PowerOn, Load, Identify, Unidentified,
         Configure, storeVars
<1>2. Stored' = Stored /\ StoredGen' = StoredGen
  BY <1>1 DEF Stored, StoredGen, Recorded, Latest, Valid, Blank
<1>3. /\ UnderWay' = 0 /\ Left' \in Nat /\ Left \in Nat
      /\ Left' <= Left /\ Left' <= Budget /\ Budget' = Budget
  <2>1. pc' \notin {"stage", "save"}
    BY DEF BootStep, PowerLoss, PowerOn, Identify, Unidentified, Configure, BootFailed
  <2>2. UnderWay' = 0 /\ UnderWay \in Nat
    BY <2>1 DEF UnderWay
  <2>3. Uncommitted' = Uncommitted /\ Unmigrated' = Unmigrated
    BY <1>2 DEF Uncommitted, Unmigrated
  <2>4. SettingsInv'
    BY BootStepInv
  <2>5. Left' \in Nat /\ Left \in Nat /\ Left' <= Budget
    BY <2>2, <2>4, LeftThen, LeftInBudget
  <2>6. Left' <= Left
    <3>1. Uncommitted \in Nat /\ Unmigrated \in Nat /\ MaxSaves - saves \in Nat
      BY LeftInBudget DEF Uncommitted, Unmigrated
    <3>2. QED
      BY <1>1, <2>2, <2>3, <3>1, SMT DEF Left
  <2>7. QED
    BY <2>2, <2>5, <2>6 DEF Budget
<1>4. form # NoForm => Behind(form.revision, StoredGen') + Left' <= Budget
  <2>1. Behind(form.revision, StoredGen) \in Nat
    BY BehindType, LeftInBudget DEF SettingsInv, TypeOK
  <2>2. Behind(form.revision, StoredGen') = Behind(form.revision, StoredGen)
    BY <1>2
  <2>3. Budget \in Nat
    BY SettingsAssumption DEF Budget
  <2>4. QED
    BY <1>3, <2>1, <2>2, <2>3 DEF RevisionInv, WrapInv
<1>5. form' # NoForm => Behind(form'.revision, StoredGen') + Left' <= Budget'
  <2>1. form' = form
    BY <1>1
  <2>2. QED
    BY <1>3, <1>4, <2>1
<1>6. CASE PowerLoss
  <2>1. pc' = "off" /\ writing' = NoWrite /\ ~started'
    BY <1>6 DEF PowerLoss, StorePowerLoss
  <2>2. WrapInv'
    BY <1>5, <2>1 DEF WrapInv
  <2>3. IdentityInv'
    BY <2>1 DEF IdentityInv
  <2>4. PageInv'
    BY <1>1, <1>2, <2>1 DEF RevisionInv, PageInv
  <2>5. QED
    BY <2>2, <2>3, <2>4 DEF RevisionInv
<1>7. CASE PowerOn
  <2>1. /\ active' = [gen |-> StoredGen, pending |-> Stored.pending]
        /\ runtime' = Stored.config /\ pc = "off" /\ pc' \in {"apply", "identify"}
        /\ UNCHANGED <<writing, started>>
    BY <1>7 DEF PowerOn, Load
  <2>2. Behind(active'.gen, StoredGen') = 0
    <3>1. SettingsInv'
      BY BootStepInv
    <3>2. active'.gen = StoredGen'
      BY <1>2, <2>1
    <3>3. QED
      BY <3>1, <3>2, LeftThen, BehindType
  <2>3. WrapInv'
    <3>1. Behind(active'.gen, StoredGen') + Left' <= Budget'
      BY <1>3, <2>2
    <3>2. writing' # NoWrite => writing'.gen = Following(StoredGen')
      BY <1>2, <2>1 DEF RevisionInv, WrapInv
    <3>3. QED
      BY <1>5, <3>1, <3>2 DEF WrapInv, Following
  <2>4. IdentityInv'
    BY <1>2, <2>1 DEF RevisionInv, IdentityInv
  <2>5. PageInv'
    BY <1>1, <1>2, <2>1 DEF RevisionInv, PageInv
  <2>6. QED
    BY <2>3, <2>4, <2>5 DEF RevisionInv
<1>8. CASE Identify \/ Unidentified \/ Configure
  <2>1. /\ UNCHANGED storeVars /\ pc \in {"identify", "configure"}
        /\ active.gen = StoredGen /\ runtime = Stored.config /\ booting /\ ~started
        /\ active.pending = Stored.pending
    BY <1>8 DEF Identify, Unidentified, Configure, RevisionInv, IdentityInv, SettingsInv,
                Phase
  <2>2. runtime'.setting = runtime.setting
    BY <1>8, <2>1, SettingsAssumption
       DEF Identify, Unidentified, Configure, SettingsInv, TypeOK
  <2>3. WrapInv'
    <3>1. Behind(active'.gen, StoredGen') = Behind(active.gen, StoredGen)
      BY <1>2, <2>1 DEF storeVars
    <3>2. Behind(active.gen, StoredGen) + Left <= Budget
      BY <2>1 DEF RevisionInv, WrapInv
    <3>3. Behind(active.gen, StoredGen) \in Nat /\ Budget \in Nat
      BY BehindType, LeftInBudget, SettingsAssumption
         DEF SettingsInv, TypeOK, StoreTypeOK, Budget
    <3>4. Behind(active'.gen, StoredGen') + Left' <= Budget'
      BY <1>3, <3>1, <3>2, <3>3
    <3>5. writing' # NoWrite => writing'.gen = Following(StoredGen')
      BY <1>2, <2>1 DEF RevisionInv, WrapInv, storeVars
    <3>6. QED
      BY <1>5, <3>4, <3>5 DEF WrapInv, Following
  <2>4. PageInv'
    BY <1>1, <1>2, <2>1, <2>2 DEF RevisionInv, PageInv, storeVars
  <2>5. CASE Identify
    <3>1. CASE runtime.network = NoTuple
      <4>1. runtime'.network # NoTuple
        BY <2>5, <3>1, RecordFacts, SettingsAssumption DEF Identify, SettingsInv, TypeOK
      <4>2. pc' = "migrate" /\ booting' = booting /\ started' = started
        BY <2>5, <3>1 DEF Identify
      <4>3. QED
        BY <1>2, <2>1, <2>2, <2>3, <2>4, <3>1, <4>1, <4>2
           DEF RevisionInv, IdentityInv, storeVars
    <3>2. CASE runtime.network # NoTuple
      <4>1. /\ pc' = "configure" /\ runtime' = runtime /\ booting' = booting
            /\ started' = started
        BY <2>5, <3>2 DEF Identify
      <4>2. QED
        BY <1>2, <2>1, <2>3, <2>4, <4>1 DEF RevisionInv, IdentityInv, storeVars
    <3>3. QED
      BY <3>1, <3>2
  <2>6. CASE Unidentified \/ Configure
    <3>1. pc' = "run" /\ runtime' = runtime /\ ~booting'
      BY <2>6 DEF Unidentified, Configure, BootFailed
    <3>2. QED
      BY <1>2, <2>1, <2>3, <2>4, <3>1 DEF RevisionInv, IdentityInv, storeVars
  <2>7. QED
    BY <1>8, <2>5, <2>6
<1>9. QED
  BY <1>6, <1>7, <1>8 DEF BootStep

(* So does what a browser asks for: a page takes the revision and the         *)
(* settings from RAM together.                                             *)
LEMMA PortalRevision ==
    ASSUME SettingsInv, RevisionInv, PortalStep
    PROVE  RevisionInv'
<1>1. /\ UNCHANGED <<storeVars, runtime, started, booting>> /\ pc = "run"
      /\ pc' \in {"run", "stage", "save"}
  BY DEF PortalStep, FormRead, PortalSave, PortalRefuse
<1>2. Stored' = Stored /\ StoredGen' = StoredGen
  BY <1>1 DEF storeVars, Stored, StoredGen, Recorded, Latest, Valid, Blank
<1>3. Left' = Left
  <2>1. Uncommitted' = Uncommitted /\ Unmigrated' = Unmigrated /\ UnderWay = 0
    BY <1>1, <1>2 DEF Uncommitted, Unmigrated, UnderWay
  <2>2. CASE PortalSave
    <3>1. saves' = saves + 1 /\ UnderWay' = 2
      BY <2>2 DEF PortalSave, UnderWay
    <3>2. saves \in Nat /\ MaxSaves \in Nat /\ Uncommitted \in Nat /\ Unmigrated \in Nat
      BY SettingsAssumption DEF SettingsInv, TypeOK, Uncommitted, Unmigrated
    <3>3. QED
      BY <2>1, <3>1, <3>2, SMT DEF Left
  <2>3. CASE FormRead \/ PortalRefuse
    <3>1. saves' = saves /\ UnderWay' = UnderWay
      BY <2>3 DEF FormRead, PortalRefuse, UnderWay
    <3>2. QED
      BY <2>1, <3>1 DEF Left
  <2>4. QED
    BY <2>2, <2>3 DEF PortalStep
<1>4. form' = form \/ form' = [revision |-> active.gen, setting |-> runtime.setting]
  BY DEF PortalStep, FormRead, PortalSave, PortalRefuse
<1>5. WrapInv'
  BY <1>1, <1>2, <1>3, <1>4 DEF RevisionInv, WrapInv, Behind, Budget, storeVars, Following
<1>6. pc' \in {"stage", "save"} => request'.config.network # NoTuple
  <2>1. CASE PortalSave
    <3>1. NoTuple # OwnProfiles
      BY SettingsAssumption
    <3>2. QED
      BY <2>1, <3>1 DEF PortalSave
  <2>2. CASE FormRead \/ PortalRefuse
    BY <1>1, <2>2 DEF FormRead, PortalRefuse
  <2>3. QED
    BY <2>1, <2>2 DEF PortalStep
<1>7. IdentityInv'
  BY <1>1, <1>2, <1>6 DEF RevisionInv, IdentityInv, storeVars, SettingsInv, Phase
<1>8. PageInv'
  BY <1>1, <1>2, <1>4 DEF RevisionInv, IdentityInv, PageInv, storeVars
<1>9. QED
  BY <1>5, <1>7, <1>8 DEF RevisionInv

(* The board starts without a revision in RAM, and without a page.          *)
LEMMA InitRevision == Init => RevisionInv
BY DEF Init, StoreInit, RevisionInv, WrapInv, IdentityInv, PageInv

(* Every step keeps the revision what it is.                               *)
LEMMA StepRevision ==
    ASSUME FewSaves
    PROVE  SettingsInv /\ RevisionInv /\ [Next]_vars => RevisionInv'
<1>1. SettingsInv /\ RevisionInv /\ UNCHANGED vars => RevisionInv'
  <2> SUFFICES ASSUME RevisionInv, UNCHANGED vars PROVE RevisionInv'
    OBVIOUS
  <2>1. Stored' = Stored /\ StoredGen' = StoredGen
    BY DEF vars, storeVars, Stored, StoredGen, Recorded, Latest, Valid, Blank
  <2>2. Left' = Left
    BY <2>1 DEF vars, appVars, Left, Uncommitted, Unmigrated, UnderWay
  <2>3. WrapInv'
    BY <2>1, <2>2 DEF vars, appVars, storeVars, RevisionInv, WrapInv, Behind, Budget,
                      Following
  <2>4. IdentityInv' /\ PageInv'
    BY <2>1 DEF vars, appVars, storeVars, RevisionInv, IdentityInv, PageInv
  <2>5. QED
    BY <2>3, <2>4 DEF RevisionInv
<1>2. Next <=> \/ BootStep \/ PortalStep \/ Apply \/ Applied
               \/ Stage \/ Save \/ Commit \/ Migrate
  BY DEF Next, BootStep, PortalStep
<1>3. QED
  BY <1>1, <1>2, WriteRevision, ApplyRevision, BootRevision, PortalRevision

(* Every reachable state is type-correct.                                  *)
THEOREM SettingsTypeCorrect == Spec => []TypeOK
<1>1. SettingsInv => TypeOK
  BY DEF SettingsInv
<1>2. QED
  BY InitSettings, StepSettings, <1>1, PTL DEF Spec

(* Two records never have generations a boot could not order, however many   *)
(* writes were cut off or failed, and however often the number wrapped.      *)
THEOREM SlotsAreOrdered == Spec => []Neighbours
<1>1. SettingsInv => Neighbours
  BY DEF SettingsInv, StoreInv
<1>2. QED
  BY InitSettings, StepSettings, <1>1, PTL DEF Spec

(* Settings and credentials take effect together or not at all, at whatever  *)
(* step power is lost and whichever step fails, and a save that is reported   *)
(* done is in force: the staged update, the setters and the commit implement  *)
(* the atomic save.                                                        *)
THEOREM SettingsAreAtomic == Spec => ImplementsAtomic
<1>1. SettingsInv /\ [Next]_vars => [Atomic!Next]_AtomicVars
  <2>1. SettingsInv /\ UNCHANGED vars => UNCHANGED AtomicVars
    BY DEF vars, storeVars, appVars, AtomicVars, InForce, Offered, Reported,
           Stored, Recorded, Latest, Valid, Blank
  <2>2. Next <=> \/ BootStep \/ PortalStep \/ Apply \/ Applied
                 \/ Stage \/ Save \/ Commit \/ Migrate
    BY DEF Next, BootStep, PortalStep
  <2>3. QED
    BY <2>1, <2>2, ApplyIsAtomic, WriteIsAtomic, BootIsAtomic, PortalIsAtomic
<1>2. QED
  BY <1>1, InitSettings, StepSettings, InitIsAtomic, PTL
     DEF Spec, ImplementsAtomic, Atomic!Spec, AtomicVars

(* Whatever a setter leaves behind, the tuple it was called for is durable.   *)
THEOREM StagedBeforeApplied == Spec => JournalFirst
<1>1. SettingsInv /\ [Next]_vars => [rui' # rui => Stored.pending = node]_vars
  BY OnlyStagedApplied
<1>2. QED
  BY <1>1, InitSettings, StepSettings, PTL DEF Spec, JournalFirst

(* LoRaWAN never starts on, and no save starts from, a tuple mixed from two   *)
(* updates, however many saves and boots were cut off between the setters.    *)
THEOREM TuplesStayWhole == Spec => []WholeTuples
<1>1. SettingsInv /\ WholeInv => WholeTuples
  BY DEF WholeInv, WholeTuples, Base, Whole
<1>2. QED
  BY <1>1, InitSettings, StepSettings, InitWhole, StepWhole, PTL DEF Spec

(* While LoRaWAN runs, the settings in RAM are those of the latest record if  *)
(* their revision is its revision, whichever writes failed or were refused    *)
(* and whenever power was lost: a page or a save that finds its revision     *)
(* current has the settings that are stored.                               *)
THEOREM RevisionIdentifies ==
    ASSUME FewSaves
    PROVE  Spec => []RevisionIsIdentity
<1>1. SettingsInv /\ RevisionInv => RevisionIsIdentity
  BY DEF RevisionInv, IdentityInv, RevisionIsIdentity
<1>2. QED
  BY InitSettings, StepSettings, InitRevision, StepRevision, <1>1, PTL DEF Spec

(* A save that is accepted was entered on a page that showed the settings     *)
(* it replaces, however long the page was open and whatever happened to the  *)
(* board in the meantime.                                                  *)
THEOREM NoUpdateIsLost ==
    ASSUME FewSaves
    PROVE  Spec => NoLostUpdate
<1>1. SettingsInv /\ RevisionInv /\ [Next]_vars =>
          [pc = "run" /\ pc' \in {"stage", "save"} => form.setting = runtime.setting]_vars
  <2> SUFFICES ASSUME SettingsInv, RevisionInv, Next, pc = "run", pc' \in {"stage", "save"}
               PROVE  form.setting = runtime.setting
    BY DEF vars, appVars
  <2>1. PortalSave
    BY DEF Next, PowerLoss, PowerOn, Apply, Applied, Stage, Save, Commit, Migrate,
           Identify, Unidentified, Configure, FormRead, PortalRefuse
  <2>2. form # NoForm /\ form.revision = active.gen
    BY <2>1 DEF PortalSave, CurrentRevision
  <2>3. QED
    BY <2>2 DEF RevisionInv, PageInv
<1>2. QED
  BY InitSettings, StepSettings, InitRevision, StepRevision, <1>1, PTL
     DEF Spec, NoLostUpdate

=============================================================================
