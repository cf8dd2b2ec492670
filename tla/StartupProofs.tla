---------------------------- MODULE StartupProofs ----------------------------
(***************************************************************************)
(* Proofs about the start of the program, for any settings and any number  *)
(* of starts, wherever a process is killed and whatever the disk does: the *)
(* keys of the WireGuard endpoint across restarts, and the settings in     *)
(* force against the sources that gave them.                               *)
(***************************************************************************)
EXTENDS Startup, FiniteSetTheorems, WellFoundedInduction, TLAPS

(* The types of what the proof is about.                                   *)
Shown == [keys : [KeyNames -> Nat], warned : BOOLEAN]
KeyTypes ==
  /\ keys \in [KeyNames -> 0 .. minted]
  /\ key_file \in [KeyNames -> Nat]
  /\ minted \in Nat /\ starts \in 0 .. MaxStarts
  /\ warned \in BOOLEAN
  /\ issued \in Seq(Shown)

(* The inductive invariant.                                                *)
KeysInv == KeyTypes /\ KeysFollowFiles /\ QrSurvivesRestart

KeySteps == {"server_file", "client", "client_file", "qr"}

(* No pair that was generated has the number of a torn file.               *)
LEMMA PairNumbers ==
  ASSUME KeysInv
  PROVE  /\ MaxStarts \in Nat \ {0} /\ Torn \in Nat \ {0} /\ minted < Torn
         /\ pc \in BeforeKeys => minted + 2 < Torn /\ minted + 2 <= 2 * starts
         /\ pc \in {"server_file", "client"} =>
              minted + 1 < Torn /\ minted + 1 <= 2 * starts
         /\ starts \in Nat /\ minted \in Nat /\ minted <= 2 * starts
<1>1. /\ MaxStarts \in Nat \ {0} /\ Torn = MaxStarts * 2 + 1
      /\ starts \in 0 .. MaxStarts /\ minted \in Nat
  BY StartupAssumption DEF KeysInv, KeyTypes, Torn
<1>2. /\ minted <= 2 * starts - Pairs /\ Pairs \in {0, 1, 2}
      /\ pc \in BeforeKeys => Pairs = 2
      /\ pc \in {"server_file", "client"} => Pairs = 1
  BY DEF KeysInv, KeysFollowFiles, Pairs, BeforeKeys
<1> QED
  BY <1>1, <1>2

(* A step that does not touch keys, files or codes, and does not enter the *)
(* part of main that handles keys: every other step, and every end.        *)
LEMMA ElsewhereStep ==
  ASSUME KeysInv, UNCHANGED <<key_file, minted, issued, starts>>,
         keys' \in {keys, NoKeys}, warned' \in BOOLEAN,
         pc' \notin KeySteps,
         pc' \in BeforeKeys => pc \in BeforeKeys
  PROVE  KeysInv'
<1>0. KeyTypes /\ KeysFollowFiles /\ QrSurvivesRestart
  BY DEF KeysInv
<1>1. KeyTypes'
  BY <1>0 DEF KeyTypes, NoKeys
<1>2. Pairs' <= Pairs /\ Pairs' \in Int /\ Pairs \in Int
  BY DEF Pairs, KeySteps
<1>3. minted' <= 2 * starts' - Pairs'
  BY <1>0, <1>2, PairNumbers DEF KeysFollowFiles
<1>4. \A k \in KeyNames : pc' # FileStep(k)
  BY DEF FileStep, KeySteps
<1>5. KeysFollowFiles'
  BY <1>0, <1>3, <1>4 DEF KeysFollowFiles, KeySteps, Saved, Torn, FileStep
<1>6. QrSurvivesRestart'
  BY <1>0 DEF QrSurvivesRestart
<1> QED
  BY <1>1, <1>5, <1>6 DEF KeysInv

(* The process is started.                                                 *)
LEMMA StartStep ==
  ASSUME KeysInv, Start
  PROVE  KeysInv'
<1>0. KeyTypes /\ KeysFollowFiles /\ QrSurvivesRestart
  BY DEF KeysInv
<1>1. /\ pc' = "load" /\ starts < MaxStarts /\ starts' = starts + 1
      /\ UNCHANGED <<keys, warned, key_file, minted, issued>>
  BY DEF Start, fileVars
<1>2. starts' \in 0 .. MaxStarts
  BY <1>0, <1>1, PairNumbers DEF KeyTypes
<1>3. minted' <= 2 * starts' - Pairs'
  BY <1>0, <1>1, PairNumbers DEF Pairs, BeforeKeys
<1>4. KeyTypes'
  BY <1>0, <1>1, <1>2 DEF KeyTypes
<1>5. KeysFollowFiles'
  BY <1>0, <1>1, <1>3 DEF KeysFollowFiles, Saved, Torn, FileStep
<1>6. QrSurvivesRestart'
  BY <1>0, <1>1 DEF QrSurvivesRestart
<1> QED
  BY <1>4, <1>5, <1>6 DEF KeysInv

(* The two keys and the steps they are handled in.                         *)
LEMMA StepFacts ==
  ASSUME NEW k \in KeyNames
  PROVE  /\ k \in {"server", "client"}
         /\ k = "server" => AfterKey(k) = "client" /\ FileStep(k) = "server_file"
         /\ k = "client" => AfterKey(k) = "qr" /\ FileStep(k) = "client_file"
         /\ AfterKey(k) \in KeySteps /\ FileStep(k) \in KeySteps
BY DEF KeyNames, AfterKey, FileStep, KeySteps

(* A key is read from its file.                                            *)
LEMMA LoadKeyStep ==
  ASSUME KeysInv, NEW k \in KeyNames, LoadKey(k)
  PROVE  KeysInv'
<1>0. KeyTypes /\ KeysFollowFiles /\ QrSurvivesRestart
  BY DEF KeysInv
<1>1. CASE WireGuardFails
  BY <1>1, ElsewhereStep
     DEF WireGuardFails, Goto, fileVars, historyVars, KeySteps, BeforeKeys, KeysInv, KeyTypes
<1>2. CASE ~WireGuardFails
  <2>1. /\ pc = k /\ key_file[k] \notin {0, Torn} /\ pc' = AfterKey(k)
        /\ keys' = [keys EXCEPT ![k] = key_file[k]]
        /\ UNCHANGED <<warned, key_file, minted, issued, starts>>
    BY <1>2 DEF LoadKey, fileVars, historyVars
  <2>2. /\ key_file[k] \in 0 .. minted
        /\ keys' \in [KeyNames -> 0 .. minted] /\ keys'[k] = key_file[k]
        /\ \A j \in KeyNames \ {k} : keys'[j] = keys[j]
    BY <1>0, <2>1, PairNumbers DEF KeysFollowFiles, KeyTypes
  <2>3. KeyTypes'
    BY <1>0, <2>1, <2>2 DEF KeyTypes
  <2>4. minted' <= 2 * starts' - Pairs'
    BY <2>1, StepFacts, PairNumbers DEF Pairs, BeforeKeys
  <2>5. pc' # FileStep("server") /\ pc' # FileStep("client")
    BY <2>1, StepFacts DEF FileStep
  <2>6. Matches(k)'
    BY <2>1, <2>2 DEF Matches, Saved, Torn
  <2>7. k = "client" => Matches("server")'
    <3>1. k = "client" => Matches("server")
      BY <1>0, <2>1 DEF KeysFollowFiles
    <3> QED
      BY <2>1, <2>2, <3>1 DEF Matches, Saved, Torn, KeyNames
  <2>8. /\ pc' \in {"client", "client_file", "qr"} => Matches("server")'
        /\ pc' = "qr" => Matches("client")'
    BY <2>1, <2>6, <2>7, StepFacts
  <2>9. KeysFollowFiles'
    BY <1>0, <2>1, <2>4, <2>5, <2>8 DEF KeysFollowFiles, Saved, Torn, KeyNames
  <2>10. QrSurvivesRestart'
    BY <1>0, <2>1 DEF QrSurvivesRestart
  <2> QED
    BY <2>3, <2>9, <2>10 DEF KeysInv
<1> QED
  BY <1>1, <1>2

(* As long as a key is not on disk, no code was shown without a warning.   *)
LEMMA UnsavedMeansWarned ==
  ASSUME KeysInv, NEW k \in KeyNames, ~Saved(k)
  PROVE  \A i \in DOMAIN issued : issued[i].warned
BY DEF KeysInv, KeysFollowFiles

(* A pair is generated, and its file created or not.                       *)
LEMMA GenerateKeyStep ==
  ASSUME KeysInv, NEW k \in KeyNames, GenerateKey(k)
  PROVE  KeysInv'
<1>0. KeyTypes /\ KeysFollowFiles /\ QrSurvivesRestart
  BY DEF KeysInv
<1>1. /\ pc = k /\ key_file[k] = 0 /\ minted' = minted + 1
      /\ keys' = [keys EXCEPT ![k] = minted + 1]
      /\ UNCHANGED <<issued, starts>>
      /\ \/ /\ key_file' = [key_file EXCEPT ![k] = Torn]
            /\ pc' = FileStep(k) /\ warned' = warned
         \/ warned' = TRUE /\ pc' = AfterKey(k) /\ key_file' = key_file
  BY DEF GenerateKey
<1>2. /\ minted \in Nat /\ Torn \in Nat \ {0}
      /\ keys' \in [KeyNames -> 0 .. minted'] /\ keys'[k] = minted + 1
      /\ \A j \in KeyNames \ {k} : keys'[j] = keys[j]
  BY <1>0, <1>1, PairNumbers DEF KeyTypes
<1>3. /\ key_file' \in [KeyNames -> Nat] /\ key_file'[k] \in {0, Torn}
      /\ \A j \in KeyNames \ {k} : key_file'[j] = key_file[j]
  BY <1>0, <1>1, <1>2 DEF KeyTypes
<1>4. KeyTypes'
  <2>1. warned' \in BOOLEAN
    BY <1>0, <1>1 DEF KeyTypes
  <2>2. minted' \in Nat /\ starts' \in 0 .. MaxStarts /\ issued' \in Seq(Shown)
    BY <1>0, <1>1, <1>2 DEF KeyTypes
  <2> QED
    BY <1>2, <1>3, <2>1, <2>2 DEF KeyTypes
<1>5. minted' <= 2 * starts' - Pairs'
  <2>1. CASE k = "server"
    <3>1. minted + 2 <= 2 * starts /\ starts' = starts /\ minted' = minted + 1
      BY <1>1, <2>1, PairNumbers DEF BeforeKeys
    <3>2. Pairs' = 1
      BY <1>1, <2>1, StepFacts DEF Pairs, BeforeKeys
    <3> QED
      BY <3>1, <3>2, PairNumbers
  <2>2. CASE k = "client"
    <3>1. minted + 1 <= 2 * starts /\ starts' = starts /\ minted' = minted + 1
      BY <1>1, <2>2, PairNumbers
    <3>2. Pairs' = 0
      BY <1>1, <2>2, StepFacts DEF Pairs, BeforeKeys
    <3> QED
      BY <3>1, <3>2, PairNumbers
  <2> QED
    BY <2>1, <2>2, StepFacts
<1>6. \A j \in KeyNames : key_file'[j] = Torn \/ key_file'[j] <= minted'
  <2>1. \A j \in KeyNames : key_file[j] \in Nat /\ (key_file[j] = Torn \/ key_file[j] <= minted)
    BY <1>0 DEF KeysFollowFiles, KeyTypes
  <2> QED
    BY <1>1, <1>2, <1>3, <2>1
<1>7. ~Saved(k) /\ ~Saved(k)'
  BY <1>1, <1>3 DEF Saved, Torn
<1>8. \A j \in KeyNames : pc' = FileStep(j) => ~Saved(j)' /\ keys'[j] # 0
  <2>1. \A j \in KeyNames : pc' = FileStep(j) => j = k
    BY <1>1, StepFacts DEF KeyNames, FileStep, AfterKey
  <2> QED
    BY <1>2, <1>7, <2>1
<1>9. pc' = AfterKey(k) => warned' = TRUE
  BY <1>1, StepFacts DEF AfterKey, FileStep
<1>10. Matches(k)' \/ pc' # AfterKey(k)
  BY <1>7, <1>9 DEF Matches
<1>11. k = "client" => Matches("server")'
  <2>1. k = "client" => Matches("server") /\ "server" \in KeyNames \ {k}
    BY <1>0, <1>1 DEF KeysFollowFiles, KeyNames
  <2>2. ~warned' => ~warned
    BY <1>1
  <2> QED
    BY <1>2, <1>3, <2>1, <2>2 DEF Matches, Saved, Torn
<1>12. /\ pc' \in {"client", "client_file", "qr"} => Matches("server")'
       /\ pc' = "qr" => Matches("client")'
  BY <1>1, <1>10, <1>11, StepFacts
<1>13. \A i \in DOMAIN issued' : issued'[i].warned
  BY <1>1, <1>7, UnsavedMeansWarned
<1>14. KeysFollowFiles'
  BY <1>5, <1>6, <1>8, <1>12, <1>13 DEF KeysFollowFiles
<1>15. QrSurvivesRestart'
  BY <1>13 DEF QrSurvivesRestart
<1> QED
  BY <1>4, <1>14, <1>15 DEF KeysInv

(* The key's file is written, or the write fails.                          *)
LEMMA PersistKeyStep ==
  ASSUME KeysInv, NEW k \in KeyNames, PersistKey(k)
  PROVE  KeysInv'
<1>0. KeyTypes /\ KeysFollowFiles /\ QrSurvivesRestart
  BY DEF KeysInv
<1>1. /\ pc = FileStep(k) /\ pc' = AfterKey(k)
      /\ UNCHANGED <<keys, minted, issued, starts>>
      /\ \/ /\ key_file' = [key_file EXCEPT ![k] = keys[k]]
            /\ warned' \in {warned, TRUE}
         \/ warned' = TRUE /\ key_file' = key_file
  BY DEF PersistKey, historyVars
<1>2. ~Saved(k) /\ keys[k] # 0 /\ keys[k] \in 0 .. minted /\ warned \in BOOLEAN
  BY <1>0, <1>1 DEF KeysFollowFiles, KeyTypes
<1>3. /\ key_file' \in [KeyNames -> Nat]
      /\ \A j \in KeyNames \ {k} : key_file'[j] = key_file[j]
      /\ key_file'[k] = keys[k] \/ (key_file'[k] = key_file[k] /\ warned' = TRUE)
      /\ warned' \in BOOLEAN /\ (~warned' => ~warned)
  <2>1. warned' \in BOOLEAN /\ (~warned' => ~warned)
    BY <1>1, <1>2
  <2>2. CASE key_file' = key_file /\ warned' = TRUE
    BY <1>0, <2>1, <2>2 DEF KeyTypes
  <2>3. CASE key_file' = [key_file EXCEPT ![k] = keys[k]]
    <3>1. keys[k] \in Nat /\ key_file \in [KeyNames -> Nat]
      BY <1>0, <1>2, PairNumbers DEF KeyTypes
    <3> QED
      BY <2>1, <2>3, <3>1
  <2> QED
    BY <1>1, <2>2, <2>3
<1>4. KeyTypes'
  BY <1>0, <1>1, <1>3 DEF KeyTypes
<1>5. minted' <= 2 * starts' - Pairs'
  <2>1. CASE k = "server"
    <3>1. minted + 1 <= 2 * starts
      BY <1>1, <2>1, StepFacts, PairNumbers
    <3>2. Pairs' = 1
      BY <1>1, <2>1, StepFacts DEF Pairs, BeforeKeys
    <3> QED
      BY <1>1, <3>1, <3>2, PairNumbers
  <2>2. CASE k = "client"
    <3>1. Pairs' = 0
      BY <1>1, <2>2, StepFacts DEF Pairs, BeforeKeys
    <3> QED
      BY <1>1, <3>1, PairNumbers
  <2> QED
    BY <2>1, <2>2, StepFacts
<1>6. \A j \in KeyNames : key_file'[j] = Torn \/ key_file'[j] <= minted'
  <2>1. \A j \in KeyNames : key_file[j] \in Nat /\ (key_file[j] = Torn \/ key_file[j] <= minted)
    BY <1>0 DEF KeysFollowFiles, KeyTypes
  <2> QED
    BY <1>1, <1>2, <1>3, <2>1, PairNumbers
<1>7. Matches(k)'
  <2>1. CASE key_file'[k] = keys[k]
    <3>1. keys[k] < Torn /\ keys[k] # Torn
      BY <1>2, PairNumbers
    <3> QED
      BY <1>1, <1>2, <2>1, <3>1 DEF Matches, Saved, Torn
  <2>2. CASE key_file'[k] = key_file[k] /\ warned' = TRUE
    BY <1>2, <2>2 DEF Matches, Saved, Torn
  <2> QED
    BY <1>3, <2>1, <2>2
<1>8. k = "client" => Matches("server")'
  <2>1. k = "client" => Matches("server") /\ "server" \in KeyNames \ {k}
    BY <1>0, <1>1, StepFacts DEF KeysFollowFiles, KeyNames
  <2> QED
    BY <1>1, <1>3, <2>1 DEF Matches, Saved, Torn
<1>9. /\ pc' \in {"client", "client_file", "qr"} => Matches("server")'
      /\ pc' = "qr" => Matches("client")'
  BY <1>1, <1>7, <1>8, StepFacts
<1>10. \A j \in KeyNames : pc' # FileStep(j)
  BY <1>1 DEF KeyNames, FileStep, AfterKey
<1>11. \A i \in DOMAIN issued' : issued'[i].warned
  BY <1>1, <1>2, UnsavedMeansWarned
<1>12. KeysFollowFiles'
  BY <1>5, <1>6, <1>9, <1>10, <1>11 DEF KeysFollowFiles
<1>13. QrSurvivesRestart'
  BY <1>11 DEF QrSurvivesRestart
<1> QED
  BY <1>4, <1>12, <1>13 DEF KeysInv

(* A code is shown.                                                        *)
LEMMA ShowQrStep ==
  ASSUME KeysInv, ShowQr
  PROVE  KeysInv'
<1>0. KeyTypes /\ KeysFollowFiles /\ QrSurvivesRestart
  BY DEF KeysInv
<1> DEFINE code == [keys |-> keys, warned |-> warned]
<1>1. /\ pc = "qr" /\ pc' = "bind" /\ issued' = Append(issued, code)
      /\ UNCHANGED <<keys, warned, key_file, minted, starts>>
  BY DEF ShowQr, fileVars
<1>2. code \in Shown /\ code.keys = keys /\ code.warned = warned
  BY <1>0 DEF KeyTypes, Shown
<1> HIDE DEF code
<1>3. /\ issued' \in Seq(Shown) /\ issued \in Seq(Shown) /\ Len(issued) \in Nat
      /\ DOMAIN issued = 1 .. Len(issued)
      /\ DOMAIN issued' = 1 .. Len(issued) + 1
      /\ issued'[Len(issued) + 1] = code
      /\ \A i \in 1 .. Len(issued) : issued'[i] = issued[i]
  BY <1>0, <1>1, <1>2 DEF KeyTypes
<1>4. \A k \in KeyNames : Matches(k)
  BY <1>0, <1>1 DEF KeysFollowFiles, KeyNames
<1>5. ASSUME NEW i \in DOMAIN issued', ~issued'[i].warned, NEW k \in KeyNames
      PROVE  Saved(k) /\ issued'[i].keys[k] = key_file[k]
  <2>1. CASE i = Len(issued) + 1
    BY <1>2, <1>3, <1>4, <1>5, <2>1 DEF Matches
  <2>2. CASE i # Len(issued) + 1
    BY <1>0, <1>3, <1>5, <2>2 DEF KeysFollowFiles
  <2> QED
    BY <2>1, <2>2
<1>6. KeyTypes'
  BY <1>0, <1>1, <1>3 DEF KeyTypes
<1>7. KeysFollowFiles'
  <2>1. Pairs = 0 /\ Pairs' = 0
    BY <1>1 DEF Pairs, BeforeKeys
  <2>2. minted' <= 2 * starts' - Pairs'
    BY <1>1, <2>1, PairNumbers
  <2>3. \A k \in KeyNames : pc' # FileStep(k)
    BY <1>1 DEF FileStep
  <2>4. \A i \in DOMAIN issued' : ~issued'[i].warned =>
          \A k \in KeyNames : Saved(k)' /\ issued'[i].keys[k] = key_file'[k]
    BY <1>1, <1>5 DEF Saved, Torn
  <2> QED
    BY <1>0, <1>1, <2>2, <2>3, <2>4 DEF KeysFollowFiles, Torn
<1>8. QrSurvivesRestart'
  <2>1. ASSUME NEW i \in DOMAIN issued', NEW j \in DOMAIN issued', i < j,
               ~issued'[i].warned
        PROVE  issued'[j].keys = issued'[i].keys
    <3>1. i \in 1 .. Len(issued) /\ issued'[i] = issued[i]
      BY <1>3, <2>1
    <3>2. CASE j = Len(issued) + 1
      <4>1. issued'[j].keys = keys
        BY <1>2, <1>3, <3>2
      <4>2. issued[i].keys \in [KeyNames -> Nat]
        <5>1. issued[i] \in Shown
          BY <1>3, <3>1
        <5> QED
          BY <5>1 DEF Shown
      <4>3. keys \in [KeyNames -> 0 .. minted]
        BY <1>0 DEF KeyTypes
      <4>4. \A k \in KeyNames : keys[k] = issued[i].keys[k]
        BY <1>4, <1>5, <2>1, <3>1 DEF Matches
      <4> QED
        BY <3>1, <4>1, <4>2, <4>3, <4>4
    <3>3. CASE j # Len(issued) + 1
      BY <1>0, <1>3, <2>1, <3>1, <3>3 DEF QrSurvivesRestart
    <3> QED
      BY <3>2, <3>3
  <2> QED
    BY <2>1 DEF QrSurvivesRestart
<1> QED
  BY <1>6, <1>7, <1>8 DEF KeysInv

(* The end of a process is a step elsewhere.                               *)
LEMMA ExitStep ==
  ASSUME KeysInv, NEW why, Exit(why)
  PROVE  KeysInv'
<1>1. /\ pc' = "down" /\ keys' = NoKeys /\ warned' = FALSE
      /\ UNCHANGED <<key_file, minted, issued, starts>>
  BY DEF Exit, fileVars, historyVars
<1>2. pc' \notin KeySteps /\ pc' \notin BeforeKeys /\ warned' \in BOOLEAN
  BY <1>1 DEF KeySteps, BeforeKeys
<1> QED
  BY <1>1, <1>2, ElsewhereStep

(* The other steps of main leave keys, files and codes alone.              *)
LEMMA OtherStep ==
  ASSUME KeysInv,
         UNCHANGED <<keys, warned, key_file, minted, issued, starts>>,
         pc' \notin KeySteps, pc' \in BeforeKeys => pc \in BeforeKeys
  PROVE  KeysInv'
<1>1. warned' \in BOOLEAN /\ keys' \in {keys, NoKeys}
  BY DEF KeysInv, KeyTypes
<1> QED
  BY <1>1, ElsewhereStep

(* The steps of main that do not handle keys.                              *)
LEMMA MainStep ==
  ASSUME KeysInv,
         \/ LoadConfig \/ LoadConfigFails \/ SyncClock \/ CheckInputs
         \/ ResolveUpstream \/ RawMode \/ OpenRecorder \/ LoadHooks
         \/ StartWireGuard \/ BindTunnel \/ ProbeTelescope
         \/ TailscaleOff \/ TailscaleUp \/ TailscaleFails
         \/ SpawnProxies \/ TaskEnds \/ CtrlC \/ Kill
  PROVE  KeysInv'
<1> DEFINE Aside == /\ UNCHANGED <<keys, warned, key_file, minted, issued, starts>>
                    /\ pc' \notin KeySteps
                    /\ pc' \in BeforeKeys => pc \in BeforeKeys
<1>1. ASSUME NEW why, Exit(why) PROVE KeysInv'
  BY <1>1, ExitStep
<1>2. ASSUME Aside PROVE KeysInv'
  BY <1>2, OtherStep
<1>3. CASE LoadConfig \/ SyncClock
  <2>1. Aside
    BY <1>3 DEF LoadConfig, SyncClock, fileVars, historyVars, KeySteps, BeforeKeys
  <2> QED
    BY <1>2, <2>1
<1>4. CASE LoadConfigFails \/ CtrlC \/ Kill
  BY <1>1, <1>4 DEF LoadConfigFails, CtrlC, Kill
<1>5. CASE CheckInputs
  <2>1. CASE Goto("resolve")
    <3>1. Aside
      BY <1>5, <2>1 DEF CheckInputs, Goto, fileVars, historyVars, KeySteps, BeforeKeys
    <3> QED
      BY <1>2, <3>1
  <2> QED
    BY <1>1, <1>5, <2>1 DEF CheckInputs
<1>6. CASE ResolveUpstream
  <2>1. Aside \/ Exit("resolve")
    BY <1>6 DEF ResolveUpstream, fileVars, historyVars, KeySteps, BeforeKeys
  <2> QED
    BY <1>1, <1>2, <2>1
<1>7. CASE RawMode
  <2>1. Aside \/ Exit("raw without upstream")
    BY <1>7 DEF RawMode, Goto, fileVars, historyVars, KeySteps, BeforeKeys
  <2> QED
    BY <1>1, <1>2, <2>1
<1>8. CASE OpenRecorder
  <2>1. Aside \/ Exit("recorder")
    BY <1>8 DEF OpenRecorder, Goto, fileVars, historyVars, KeySteps, BeforeKeys
  <2> QED
    BY <1>1, <1>2, <2>1
<1>9. CASE LoadHooks
  <2>1. Aside \/ Exit("hooks")
    BY <1>9 DEF LoadHooks, Goto, fileVars, historyVars, KeySteps, BeforeKeys
  <2> QED
    BY <1>1, <1>2, <2>1
<1>10. CASE StartWireGuard
  <2>1. Aside \/ Exit("not compiled in")
    BY <1>10 DEF StartWireGuard, Goto, fileVars, historyVars, KeySteps, BeforeKeys
  <2> QED
    BY <1>1, <1>2, <2>1
<1>11. CASE BindTunnel \/ ProbeTelescope
  <2>1. Aside \/ Exit("probe")
    BY <1>11 DEF BindTunnel, ProbeTelescope, WireGuardFails, Goto, fileVars,
       historyVars, KeySteps, BeforeKeys
  <2> QED
    BY <1>1, <1>2, <2>1
<1>12. CASE TailscaleOff \/ TailscaleUp \/ TailscaleFails \/ SpawnProxies
  <2>1. Aside
    BY <1>12 DEF TailscaleOff, TailscaleUp, TailscaleFails, SpawnProxies, Goto,
       fileVars, historyVars, KeySteps, BeforeKeys
  <2> QED
    BY <1>2, <2>1
<1>13. CASE TaskEnds
  <2>1. Aside
    BY <1>13 DEF TaskEnds, fileVars, historyVars, KeySteps, BeforeKeys
  <2> QED
    BY <1>2, <2>1
<1> QED
  BY <1>3, <1>4, <1>5, <1>6, <1>7, <1>8, <1>9, <1>10, <1>11, <1>12, <1>13

(* Every step of main, of the endpoint's start and every kill keeps the    *)
(* invariant of the keys.                                                  *)
LEMMA KeysStep == KeysInv /\ [Next]_vars => KeysInv'
<1> SUFFICES ASSUME KeysInv, [Next]_vars PROVE KeysInv'
  OBVIOUS
<1>1. CASE UNCHANGED vars
  BY <1>1 DEF vars, KeysInv, KeyTypes, KeysFollowFiles, QrSurvivesRestart,
     Pairs, Saved, Matches, BeforeKeys
<1>2. CASE Start
  BY <1>2, StartStep
<1>3. ASSUME NEW k \in KeyNames, LoadKey(k) \/ GenerateKey(k) \/ PersistKey(k)
      PROVE  KeysInv'
  BY <1>3, LoadKeyStep, GenerateKeyStep, PersistKeyStep
<1>4. CASE ShowQr
  BY <1>4, ShowQrStep
<1> QED
  BY <1>1, <1>2, <1>3, <1>4, MainStep DEF Next, Step

(* No key exists before the first start.                                   *)
LEMMA KeysInit == Init => KeysInv
<1> SUFFICES ASSUME Init PROVE KeysInv
  OBVIOUS
<1>1. /\ pc = "down" /\ keys = NoKeys /\ warned = FALSE /\ key_file = NoKeys
      /\ minted = 0 /\ issued = <<>> /\ starts = 0
  BY DEF Init
<1>2. MaxStarts \in Nat \ {0}
  BY StartupAssumption
<1>3. KeyTypes
  <2>1. NoKeys \in [KeyNames -> 0 .. 0] /\ NoKeys \in [KeyNames -> Nat]
    BY DEF NoKeys
  <2>2. issued \in Seq(Shown)
    BY <1>1
  <2>3. warned \in BOOLEAN
    BY <1>1
  <2>4. keys \in [KeyNames -> 0 .. minted] /\ key_file \in [KeyNames -> Nat]
    BY <1>1, <2>1
  <2>5. starts \in 0 .. MaxStarts /\ minted \in Nat
    <3>1. starts = 0 /\ minted = 0
      BY <1>1
    <3> QED
      BY <3>1, <1>2
  <2> QED
    BY <2>2, <2>3, <2>4, <2>5 DEF KeyTypes
<1>4. KeysFollowFiles
  BY <1>1, <1>2 DEF KeysFollowFiles, Pairs, BeforeKeys, NoKeys, FileStep
<1>5. QrSurvivesRestart
  BY <1>1 DEF QrSurvivesRestart
<1> QED
  BY <1>3, <1>4, <1>5 DEF KeysInv

-----------------------------------------------------------------------------
(* A client configuration shown without a warning stays good: every        *)
(* configuration a later process shows has the same keys, wherever         *)
(* processes were killed and whatever the disk did (load_or_generate,      *)
(* try_persist and start of the WireGuard endpoint).                       *)
THEOREM QrSurvives == Spec => []QrSurvivesRestart
<1>1. KeysInv => QrSurvivesRestart
  BY DEF KeysInv
<1> QED
  BY <1>1, KeysInit, KeysStep, PTL DEF Spec

(* The keys in memory follow the key files: a saved key is the one in use, *)
(* one that is not saved was warned of, and the disk keeps what was shown  *)
(* unwarned.                                                               *)
THEOREM KeysOnDisk == Spec => []KeysFollowFiles
<1>1. KeysInv => KeysFollowFiles
  BY DEF KeysInv
<1> QED
  BY <1>1, KeysInit, KeysStep, PTL DEF Spec
-----------------------------------------------------------------------------
(* The settings.                                                           *)

(* What Config::load makes of the user's settings.                         *)
LoadedConfig(s) ==
  IF Readable(s) = {} THEN Parse(s) ELSE ApplyFile(Parse(s), FileOf(s).values)
LoadedHooks(s) ==
  IF Readable(s) = {} THEN s.cli_hooks ELSE AppendHooks(s.cli_hooks, FileOf(s).hooks)
LoadedVerbose(s) ==
  IF Readable(s) = {} THEN s.cli_verbose
                      ELSE HigherOf(FileOf(s).verbose, s.cli_verbose)

Loaded ==
  /\ config = LoadedConfig(setup)
  /\ hooks = LoadedHooks(setup)
  /\ verbose = LoadedVerbose(setup)
NotLoaded == config = <<>> /\ hooks = <<>> /\ verbose = 0

Places == {"down", "load", "ntp", "inputs", "resolve", "raw", "recorder",
           "hooks", "wireguard", "server", "client", "server_file",
           "client_file", "qr", "bind", "probe", "tailscale", "spawn",
           "running"}
Spawned == {"raw control", "raw imaging", "netstack", "tunnel bridge",
            "packet loop", "ts control", "ts imaging", "ts dashboard",
            "dashboard", "control", "imaging", "discovery"}

(* The inductive invariant of the settings: once loaded they stay what     *)
(* load made of the sources, until the process ends.                       *)
MainInv ==
  /\ setup \in Setups
  /\ pc \in Places
  /\ upstream \in {"none", "v4", "v6"}
  /\ tasks \subseteq Spawned
  /\ clock_right \in BOOLEAN
  /\ IF pc \in {"down", "load"} THEN NotLoaded ELSE Loaded

(* Before the first start nothing is loaded.                               *)
LEMMA MainInit == Init => MainInv
BY DEF Init, MainInv, NotLoaded, Places

(* The end of a process forgets the settings.                              *)
LEMMA MainExit ==
  ASSUME MainInv, NEW why, Exit(why)
  PROVE  MainInv'
BY DEF MainInv, Exit, NotLoaded, Places, fileVars

(* Every other step leaves the settings alone.                             *)
LEMMA MainAside ==
  ASSUME MainInv, UNCHANGED <<setup, config, hooks, verbose>>,
         pc \notin {"down", "load"}, pc' \in Places \ {"down", "load"},
         upstream' \in {"none", "v4", "v6"}, tasks' \subseteq Spawned,
         clock_right' \in BOOLEAN
  PROVE  MainInv'
BY DEF MainInv, Loaded

(* main goes on.                                                           *)
LEMMA MainGoto ==
  ASSUME MainInv, NEW step, Goto(step), pc \notin {"down", "load"},
         step \in Places \ {"down", "load"}
  PROVE  MainInv'
<1>1. /\ UNCHANGED <<setup, config, hooks, verbose, upstream, tasks, clock_right>>
      /\ pc' = step
  BY DEF Goto, fileVars
<1>2. upstream' \in {"none", "v4", "v6"} /\ tasks' \subseteq Spawned
  BY <1>1 DEF MainInv
<1>3. clock_right' \in BOOLEAN
  BY <1>1 DEF MainInv
<1> QED
  BY <1>1, <1>2, <1>3, MainAside

(* The configuration is loaded.                                            *)
LEMMA MainLoad ==
  ASSUME MainInv, LoadConfig
  PROVE  MainInv'
<1>1. /\ UNCHANGED <<setup, upstream, tasks, clock_right>>
      /\ pc' = "ntp"
  BY DEF LoadConfig, fileVars
<1>2. /\ config' = LoadedConfig(setup)
      /\ hooks' = LoadedHooks(setup)
      /\ verbose' = LoadedVerbose(setup)
  BY DEF LoadConfig, LoadedConfig, LoadedHooks, LoadedVerbose
<1>3. Loaded'
  BY <1>1, <1>2 DEF Loaded
<1>4. pc' \in Places \ {"down", "load"}
  BY <1>1 DEF Places
<1> QED
  BY <1>1, <1>3, <1>4 DEF MainInv

(* A name resolves to an address.                                          *)
LEMMA ResolvedTo ==
  ASSUME NEW host
  PROVE  ResolveHost(host) \subseteq {"none", "v4", "v6"}
BY DEF ResolveHost

(* Every step of main, of the endpoint's start and every kill keeps the    *)
(* invariant of the settings.                                              *)
LEMMA MainInvStep == MainInv /\ [Next]_vars => MainInv'
<1> SUFFICES ASSUME MainInv, [Next]_vars PROVE MainInv'
  OBVIOUS
<1>0. /\ upstream \in {"none", "v4", "v6"} /\ tasks \subseteq Spawned
      /\ clock_right \in BOOLEAN
  BY DEF MainInv
<1> DEFINE Aside == /\ UNCHANGED <<setup, config, hooks, verbose>>
                    /\ pc \notin {"down", "load"}
                    /\ pc' \in Places \ {"down", "load"}
<1>1. ASSUME NEW why, Exit(why) PROVE MainInv'
  BY <1>1, MainExit
<1>2. ASSUME Aside, UNCHANGED <<upstream, tasks, clock_right>> PROVE MainInv'
  <2>1. upstream' \in {"none", "v4", "v6"} /\ tasks' \subseteq Spawned
    BY <1>0, <1>2
  <2>2. clock_right' \in BOOLEAN
    BY <1>0, <1>2
  <2> QED
    BY <1>2, <2>1, <2>2, MainAside
<1>3. ASSUME NEW step \in Places \ {"down", "load"}, Goto(step),
             pc \notin {"down", "load"}
      PROVE  MainInv'
  BY <1>3, MainGoto
<1>4. ASSUME Aside, UNCHANGED <<upstream, clock_right>>, tasks' \subseteq Spawned
      PROVE  MainInv'
  <2>1. clock_right' \in BOOLEAN /\ upstream' \in {"none", "v4", "v6"}
    BY <1>0, <1>4
  <2> QED
    BY <1>4, <2>1, MainAside
<1>5. CASE UNCHANGED vars
  BY <1>5 DEF vars, MainInv, Loaded, NotLoaded
<1>6. CASE Start
  BY <1>6 DEF Start, MainInv, NotLoaded, Places, fileVars
<1>7. CASE LoadConfig
  BY <1>7, MainLoad
<1>8. CASE LoadConfigFails \/ CtrlC \/ Kill
  BY <1>1, <1>8 DEF LoadConfigFails, CtrlC, Kill
<1>9. CASE SyncClock
  <2>1. Aside /\ UNCHANGED <<upstream, tasks>>
    BY <1>9 DEF SyncClock, Places
  <2>2. clock_right' \in {clock_right, TRUE}
    BY <1>9 DEF SyncClock
  <2>3. clock_right' \in BOOLEAN
    BY <1>0, <2>2
  <2>4. upstream' \in {"none", "v4", "v6"} /\ tasks' \subseteq Spawned
    BY <1>0, <2>1
  <2> QED
    BY <2>1, <2>3, <2>4, MainAside
<1>10. CASE CheckInputs
  <2>1. pc = "inputs" /\ "resolve" \in Places \ {"down", "load"}
    BY <1>10 DEF CheckInputs, Places
  <2> QED
    BY <1>1, <1>3, <1>10, <2>1 DEF CheckInputs
<1>11. CASE ResolveUpstream
  <2>1. CASE Exit("resolve")
    BY <1>1, <2>1
  <2>2. CASE ~Exit("resolve")
    <3>1. Aside /\ UNCHANGED <<tasks, clock_right>>
      BY <1>11, <2>2 DEF ResolveUpstream, Places, fileVars
    <3>2. \E host : upstream' \in IF NoUpstream THEN {"none"} ELSE ResolveHost(host)
      BY <1>11, <2>2 DEF ResolveUpstream
    <3>3. upstream' \in {"none", "v4", "v6"}
      BY <3>2, ResolvedTo
    <3>4. tasks' \subseteq Spawned
      BY <1>0, <3>1
    <3>5. clock_right' \in BOOLEAN
      BY <1>0, <3>1
    <3> QED
      BY <3>1, <3>3, <3>4, <3>5, MainAside
  <2> QED
    BY <2>1, <2>2
<1>12. CASE RawMode
  <2>1. pc = "raw" /\ "recorder" \in Places \ {"down", "load"}
        /\ "running" \in Places \ {"down", "load"}
    BY <1>12 DEF RawMode, Places
  <2>2. \/ Goto("recorder") \/ Exit("raw without upstream")
        \/ Aside /\ UNCHANGED <<upstream, clock_right>> /\ tasks' \subseteq Spawned
    BY <1>12, <2>1 DEF RawMode, Spawned, fileVars
  <2> QED
    BY <1>1, <1>3, <1>4, <2>1, <2>2
<1>13. CASE OpenRecorder \/ LoadHooks
  <2>1. /\ pc \notin {"down", "load"} /\ "hooks" \in Places \ {"down", "load"}
        /\ "wireguard" \in Places \ {"down", "load"}
    BY <1>13 DEF OpenRecorder, LoadHooks, Places
  <2> QED
    BY <1>1, <1>3, <1>13, <2>1 DEF OpenRecorder, LoadHooks
<1>14. CASE StartWireGuard
  <2>1. /\ pc \notin {"down", "load"} /\ "tailscale" \in Places \ {"down", "load"}
        /\ "server" \in Places \ {"down", "load"}
    BY <1>14 DEF StartWireGuard, Places
  <2> QED
    BY <1>1, <1>3, <1>14, <2>1 DEF StartWireGuard
<1>15. ASSUME NEW k \in KeyNames, LoadKey(k) \/ GenerateKey(k) \/ PersistKey(k)
       PROVE  MainInv'
  <2>1. /\ pc \notin {"down", "load"} /\ "tailscale" \in Places \ {"down", "load"}
        /\ AfterKey(k) \in Places \ {"down", "load"}
        /\ FileStep(k) \in Places \ {"down", "load"}
    BY <1>15 DEF LoadKey, GenerateKey, PersistKey, KeyNames, AfterKey, FileStep, Places
  <2>2. \/ Goto("tailscale")
        \/ Aside /\ UNCHANGED <<upstream, tasks, clock_right>>
    BY <1>15, <2>1 DEF LoadKey, GenerateKey, PersistKey, WireGuardFails, fileVars
  <2> QED
    BY <1>2, <1>3, <2>1, <2>2
<1>16. CASE ShowQr
  <2>1. Aside /\ UNCHANGED <<upstream, tasks, clock_right>>
    BY <1>16 DEF ShowQr, Places, fileVars
  <2> QED
    BY <1>2, <2>1
<1>17. CASE BindTunnel
  <2>1. /\ pc \notin {"down", "load"} /\ "tailscale" \in Places \ {"down", "load"}
        /\ "probe" \in Places \ {"down", "load"}
    BY <1>17 DEF BindTunnel, Places
  <2>2. \/ Goto("tailscale")
        \/ Aside /\ UNCHANGED <<upstream, clock_right>> /\ tasks' \subseteq Spawned
    BY <1>0, <1>17, <2>1 DEF BindTunnel, WireGuardFails, Spawned, fileVars
  <2> QED
    BY <1>3, <1>4, <2>1, <2>2
<1>18. CASE TailscaleOff \/ TailscaleFails
  <2>1. pc \notin {"down", "load"} /\ "spawn" \in Places \ {"down", "load"}
    BY <1>18 DEF TailscaleOff, TailscaleFails, Places
  <2> QED
    BY <1>3, <1>18, <2>1 DEF TailscaleOff, TailscaleFails
<1>19. CASE TailscaleUp \/ SpawnProxies \/ TaskEnds
  <2>1. Aside /\ UNCHANGED <<upstream, clock_right>>
    BY <1>19 DEF TailscaleUp, SpawnProxies, TaskEnds, Places, fileVars
  <2>2. tasks' \subseteq Spawned
    BY <1>0, <1>19 DEF TailscaleUp, SpawnProxies, TaskEnds, Spawned
  <2> QED
    BY <1>4, <2>1, <2>2
<1>20. CASE ProbeTelescope
  <2>1. \/ Exit("probe")
        \/ Aside /\ UNCHANGED <<upstream, clock_right>> /\ tasks' \subseteq Spawned
    BY <1>0, <1>20 DEF ProbeTelescope, Places, Spawned, fileVars
  <2> QED
    BY <1>1, <1>4, <2>1
<1> QED
  BY <1>5, <1>6, <1>7, <1>8, <1>9, <1>10, <1>11, <1>12, <1>13, <1>14, <1>15,
     <1>16, <1>17, <1>18, <1>19, <1>20 DEF Next, Step
(* Every nonempty set of naturals has a least element.                     *)
LEMMA Least ==
  ASSUME NEW T \in SUBSET Nat, T # {}
  PROVE  \E m \in T : \A k \in T : m <= k
<1> DEFINE R == {ss \in Nat \X Nat : ss[1] < ss[2]}
<1>1. IsWellFoundedOn(R, Nat)
  BY NatLessThanWellFounded, Zenon DEF OpToRel
<1>2. \A x, y \in Nat : (<<y, x>> \in R) <=> y < x
  OBVIOUS
<1> HIDE DEF R
<1>3. T \subseteq Nat
  OBVIOUS
<1>4. \E x \in T : \A y \in T : ~(<<y, x>> \in R)
  BY <1>1, <1>3, WFMin, Zenon
<1>5. PICK x \in T : \A y \in T : ~(<<y, x>> \in R)
  BY <1>4
<1>6. ASSUME NEW y \in T PROVE x <= y
  <2>1. x \in Nat /\ y \in Nat /\ ~(y < x)
    BY <1>2, <1>3, <1>5
  <2> QED
    BY <2>1
<1> QED
  BY <1>5, <1>6

(* Induction up to N, for a set G of numbers: what fails somewhere fails a *)
(* first time.                                                             *)
LEMMA UpTo ==
  ASSUME NEW N \in Nat, NEW G, 0 \in G,
         \A n \in 0 .. N - 1 : n \in G => n + 1 \in G
  PROVE  \A n \in 0 .. N : n \in G
<1> DEFINE T == {n \in 0 .. N : n \notin G}
<1>1. SUFFICES ASSUME T # {} PROVE FALSE
  OBVIOUS
<1>2. T \in SUBSET Nat
  OBVIOUS
<1>3. PICK m \in T : \A k \in T : m <= k
  BY <1>1, <1>2, Least
<1>4. m \in 0 .. N /\ m \notin G /\ m # 0
  OBVIOUS
<1>5. m - 1 \in 0 .. N - 1 /\ (m - 1) + 1 = m /\ m - 1 \in 0 .. N /\ ~(m <= m - 1)
  BY <1>4
<1>6. m - 1 \in G
  BY <1>3, <1>5
<1> QED
  BY <1>4, <1>5, <1>6

-----------------------------------------------------------------------------
(* What load makes of the settings, for any settings.                      *)

(* The file that is loaded is one of the candidates.                       *)
LEMMA FileLoaded ==
  ASSUME NEW s \in Setups, Readable(s) # {}
  PROVE  /\ IsAssignment(FileOf(s).values) /\ DOMAIN FileOf(s).values \cap CliFlags = {}
         /\ FileOf(s).hooks \in Seq(STRING) /\ FileOf(s).verbose \in 0 .. 2
<1>1. IsSetup(s)
  BY StartupAssumption
<1>2. s.files \in Seq(Range(s.files))
  BY <1>1 DEF IsSetup
<1>3. DOMAIN s.files = 1 .. Len(s.files) /\ Len(s.files) \in Nat
  BY <1>2
<1>4. Readable(s) \in SUBSET Nat /\ Readable(s) \subseteq DOMAIN s.files
  BY <1>3 DEF Readable
<1>5. \E m \in Readable(s) : \A j \in Readable(s) : m <= j
  BY <1>4, Least
<1> DEFINE first == CHOOSE i \in Readable(s) : \A j \in Readable(s) : i <= j
<1>6. first \in Readable(s)
  BY <1>5, Zenon
<1>7. FileOf(s) = s.files[first]
  BY DEF FileOf
<1> HIDE DEF first
<1>8. FileOf(s) \in Range(s.files)
  BY <1>4, <1>6, <1>7 DEF Range
<1> QED
  BY <1>1, <1>8 DEF IsSetup

(* The values the file gives, if a file is loaded.                         *)
FileValuesOf(s) == IF Readable(s) = {} THEN <<>> ELSE FileOf(s).values

(* The file gives values like the other sources, but none for the flags of *)
(* the command line.                                                       *)
LEMMA FileGives ==
  ASSUME NEW s \in Setups
  PROVE  /\ IsAssignment(FileValuesOf(s)) /\ DOMAIN FileValuesOf(s) \cap CliFlags = {}
         /\ IsAssignment(s.cli) /\ IsAssignment(s.env)
         /\ \A f \in DOMAIN s.cli \cap Flags : s.cli[f] = TRUE
<1>1. IsSetup(s)
  BY StartupAssumption
<1>2. IsAssignment(<<>>) /\ DOMAIN <<>> \cap CliFlags = {}
  BY DEF IsAssignment
<1>3. IsAssignment(FileValuesOf(s)) /\ DOMAIN FileValuesOf(s) \cap CliFlags = {}
  BY <1>2, FileLoaded DEF FileValuesOf
<1> QED
  BY <1>1, <1>3 DEF IsSetup

(* No field is of two kinds.                                               *)
LEMMA KindsOfFields ==
  /\ OptionFields \cap DefaultFields = {} /\ OptionFields \cap Flags = {}
  /\ DefaultFields \cap Flags = {} /\ OptionFields \cap CliFlags = {}
  /\ DefaultFields \cap CliFlags = {} /\ Flags \cap CliFlags = {}
BY DEF OptionFields, DefaultFields, Flags, CliFlags

(* Where a value of the configuration comes from: the file when it may     *)
(* fill the field, else the command line, the environment, the default.    *)
LEMMA ValueOf ==
  ASSUME NEW s \in Setups
  PROVE  LET file == FileValuesOf(s)
             c    == Parse(s)
             dom  == DOMAIN s.cli \cup DOMAIN s.env \cup DefaultFields
                       \cup Flags \cup CliFlags
         IN  /\ DOMAIN c = dom
             /\ \A f \in dom :
                  c[f] = IF f \in DOMAIN s.cli THEN s.cli[f]
                         ELSE IF f \in DOMAIN s.env THEN s.env[f]
                         ELSE IF f \in DefaultFields THEN Defaults[f] ELSE FALSE
             /\ DOMAIN LoadedConfig(s) = dom \cup Fills(c, file)
             /\ \A f \in dom \cup Fills(c, file) :
                  LoadedConfig(s)[f] = IF f \in Fills(c, file) THEN file[f] ELSE c[f]
<1> DEFINE file == FileValuesOf(s)
           c    == Parse(s)
           dom  == DOMAIN s.cli \cup DOMAIN s.env \cup DefaultFields \cup Flags \cup CliFlags
<1>1. /\ DOMAIN c = dom
      /\ \A f \in dom :
           c[f] = IF f \in DOMAIN s.cli THEN s.cli[f]
                  ELSE IF f \in DOMAIN s.env THEN s.env[f]
                  ELSE IF f \in DefaultFields THEN Defaults[f] ELSE FALSE
  BY DEF Parse
<1> HIDE DEF dom, c
<1>2. CASE Readable(s) = {}
  <2>1. Fills(c, file) = {}
    BY <1>2 DEF Fills, FileValuesOf
  <2>2. LoadedConfig(s) = c
    BY <1>2 DEF LoadedConfig, c
  <2> QED
    BY <1>1, <2>1, <2>2 DEF dom, c
<1>3. CASE Readable(s) # {}
  <2>1. LoadedConfig(s) = [f \in DOMAIN c \cup Fills(c, file) |->
                             IF f \in Fills(c, file) THEN file[f] ELSE c[f]]
    BY <1>3 DEF LoadedConfig, ApplyFile, FileValuesOf, c
  <2> HIDE DEF file
  <2> QED
    BY <1>1, <2>1 DEF dom, c, file
<1> QED
  BY <1>2, <1>3

(* The configuration has the types of the sources.                         *)
LEMMA ConfigTyped ==
  ASSUME NEW s \in Setups
  PROVE  IsAssignment(LoadedConfig(s))
<1> DEFINE file == FileValuesOf(s)
           c    == Parse(s)
           dom  == DOMAIN s.cli \cup DOMAIN s.env \cup DefaultFields \cup Flags \cup CliFlags
           all  == OptionFields \cup DefaultFields \cup Flags \cup CliFlags
           Typed(f, v) == IF f \in Flags \cup CliFlags THEN v \in BOOLEAN ELSE v \in STRING
<1>1. /\ IsAssignment(file) /\ IsAssignment(s.cli) /\ IsAssignment(s.env)
  BY FileGives
<1>2. /\ DOMAIN file \subseteq all /\ DOMAIN s.cli \subseteq all /\ DOMAIN s.env \subseteq all
      /\ \A f \in DOMAIN file : Typed(f, file[f])
      /\ \A f \in DOMAIN s.cli : Typed(f, s.cli[f])
      /\ \A f \in DOMAIN s.env : Typed(f, s.env[f])
  BY <1>1, Zenon DEF IsAssignment
<1>3. \A f \in DefaultFields : Typed(f, Defaults[f])
  BY DefaultsAreStrings, KindsOfFields, Zenon
<1>4. \A f \in Flags \cup CliFlags : Typed(f, FALSE)
  OBVIOUS
<1>5. /\ \A f \in dom :
           c[f] = IF f \in DOMAIN s.cli THEN s.cli[f]
                  ELSE IF f \in DOMAIN s.env THEN s.env[f]
                  ELSE IF f \in DefaultFields THEN Defaults[f] ELSE FALSE
      /\ DOMAIN LoadedConfig(s) = dom \cup Fills(c, file)
      /\ \A f \in dom \cup Fills(c, file) :
           LoadedConfig(s)[f] = IF f \in Fills(c, file) THEN file[f] ELSE c[f]
  BY ValueOf
<1>6. Fills(c, file) \subseteq DOMAIN file
  BY DEF Fills
<1>7. dom \subseteq all
  BY <1>2
<1> HIDE DEF Typed, c, file
<1>8. ASSUME NEW f \in dom PROVE Typed(f, c[f])
  <2>1. CASE f \in DOMAIN s.cli
    BY <1>2, <1>5, <2>1
  <2>2. CASE f \notin DOMAIN s.cli /\ f \in DOMAIN s.env
    BY <1>2, <1>5, <2>2
  <2>3. CASE f \notin DOMAIN s.cli /\ f \notin DOMAIN s.env /\ f \in DefaultFields
    BY <1>3, <1>5, <2>3
  <2>4. CASE f \notin DOMAIN s.cli /\ f \notin DOMAIN s.env /\ f \notin DefaultFields
    <3>1. c[f] = FALSE /\ f \in Flags \cup CliFlags
      BY <1>5, <2>4
    <3> QED
      BY <1>4, <3>1
  <2> QED
    BY <2>1, <2>2, <2>3, <2>4
<1> HIDE DEF dom, all
<1>9. ASSUME NEW f \in DOMAIN LoadedConfig(s) PROVE Typed(f, LoadedConfig(s)[f])
  BY <1>2, <1>5, <1>6, <1>8
<1>10. DOMAIN LoadedConfig(s) \subseteq all
  BY <1>2, <1>5, <1>6, <1>7
<1> QED
  BY <1>9, <1>10, Zenon DEF IsAssignment, Typed, all

(* What the sources give a field.                                          *)
GivenTo(s, f) ==
  {src[f] : src \in {a \in {s.cli, s.env, FileValuesOf(s)} : f \in DOMAIN a}}

(* What is given to a field is given by some source.                       *)
LEMMA Gives ==
  ASSUME NEW s, NEW f
  PROVE  /\ f \in DOMAIN s.cli => s.cli[f] \in GivenTo(s, f)
         /\ f \in DOMAIN s.env => s.env[f] \in GivenTo(s, f)
         /\ f \in DOMAIN FileValuesOf(s) => FileValuesOf(s)[f] \in GivenTo(s, f)
         /\ \A v \in GivenTo(s, f) :
              \/ f \in DOMAIN s.cli /\ v = s.cli[f]
              \/ f \in DOMAIN s.env /\ v = s.env[f]
              \/ f \in DOMAIN FileValuesOf(s) /\ v = FileValuesOf(s)[f]
BY DEF GivenTo

(* A set of one element has only that one.                                 *)
LEMMA OneElement ==
  ASSUME NEW T, NEW a, NEW b, NEW c, T \subseteq {a, b, c}, Cardinality(T) = 1
  PROVE  \A x, y \in T : x = y
<1>1. IsFiniteSet({a, b, c})
  <2>1. IsFiniteSet({})
    BY FS_EmptySet
  <2>2. IsFiniteSet({} \cup {a})
    BY <2>1, FS_AddElement
  <2>3. IsFiniteSet(({} \cup {a}) \cup {b})
    BY <2>2, FS_AddElement
  <2>4. IsFiniteSet((({} \cup {a}) \cup {b}) \cup {c})
    BY <2>3, FS_AddElement
  <2>5. (({} \cup {a}) \cup {b}) \cup {c} = {a, b, c}
    OBVIOUS
  <2> QED
    BY <2>4, <2>5
<1>2. IsFiniteSet(T)
  BY <1>1, FS_Subset
<1>3. \E x : T = {x}
  BY <1>2, FS_Singleton
<1> QED
  BY <1>3

(* When all the sources that give a field agree, they give what the file   *)
(* gives.                                                                  *)
LEMMA AllAlike ==
  ASSUME NEW s, NEW f \in DOMAIN FileValuesOf(s), Cardinality(GivenTo(s, f)) = 1
  PROVE  /\ f \in DOMAIN s.cli => s.cli[f] = FileValuesOf(s)[f]
         /\ f \in DOMAIN s.env => s.env[f] = FileValuesOf(s)[f]
<1>1. GivenTo(s, f) \subseteq {s.cli[f], s.env[f], FileValuesOf(s)[f]}
  BY Gives
<1>2. \A x, y \in GivenTo(s, f) : x = y
  BY <1>1, OneElement
<1> QED
  BY <1>2, Gives

(* The promise of apply_file for the fields with values.                   *)
LEMMA FieldsHonoured ==
  ASSUME NEW s \in Setups, NEW f \in OptionFields \cup DefaultFields
  PROVE  LET unlike(a) == f \in DOMAIN a /\ (f \in DefaultFields => a[f] # Defaults[f])
             file == FileValuesOf(s)
             got  == LoadedConfig(s)
         IN  /\ unlike(s.cli) => got[f] = s.cli[f]
             /\ f \notin DOMAIN s.cli /\ unlike(s.env) => got[f] = s.env[f]
             /\ f \in DOMAIN file /\ Cardinality(GivenTo(s, f)) = 1 => got[f] = file[f]
             /\ GivenTo(s, f) = {} =>
                  IF f \in DefaultFields THEN got[f] = Defaults[f] ELSE f \notin DOMAIN got
<1> DEFINE file == FileValuesOf(s)
           c    == Parse(s)
           dom  == DOMAIN s.cli \cup DOMAIN s.env \cup DefaultFields \cup Flags \cup CliFlags
           got  == LoadedConfig(s)
<1>1. /\ DOMAIN c = dom
      /\ \A g \in dom :
           c[g] = IF g \in DOMAIN s.cli THEN s.cli[g]
                  ELSE IF g \in DOMAIN s.env THEN s.env[g]
                  ELSE IF g \in DefaultFields THEN Defaults[g] ELSE FALSE
      /\ DOMAIN got = dom \cup Fills(c, file)
      /\ \A g \in dom \cup Fills(c, file) :
           got[g] = IF g \in Fills(c, file) THEN file[g] ELSE c[g]
  BY ValueOf
<1>2. f \notin Flags /\ f \notin CliFlags /\ ~(f \in OptionFields /\ f \in DefaultFields)
  BY KindsOfFields
<1> HIDE DEF c, file, got
<1>3. f \in Fills(c, file) <=>
        /\ f \in DOMAIN file
        /\ \/ f \in OptionFields  /\ f \notin DOMAIN c
           \/ f \in DefaultFields /\ c[f] = Defaults[f]
  BY <1>2 DEF Fills
<1>4. f \in dom <=> f \in DOMAIN s.cli \/ f \in DOMAIN s.env \/ f \in DefaultFields
  BY <1>2
<1> HIDE DEF dom
<1>5. f \in DOMAIN s.cli /\ (f \in DefaultFields => s.cli[f] # Defaults[f])
        => got[f] = s.cli[f]
  BY <1>1, <1>2, <1>3, <1>4
<1>6. f \notin DOMAIN s.cli /\ f \in DOMAIN s.env
        /\ (f \in DefaultFields => s.env[f] # Defaults[f]) => got[f] = s.env[f]
  BY <1>1, <1>2, <1>3, <1>4
<1>7. ASSUME f \in DOMAIN file, Cardinality(GivenTo(s, f)) = 1 PROVE got[f] = file[f]
  <2>1. /\ f \in DOMAIN s.cli => s.cli[f] = file[f]
        /\ f \in DOMAIN s.env => s.env[f] = file[f]
    BY <1>7, AllAlike DEF file
  <2>2. CASE f \in Fills(c, file)
    BY <1>1, <2>2
  <2>3. CASE f \notin Fills(c, file)
    <3>1. f \in dom
      BY <1>1, <1>2, <1>3, <1>7, <2>3 DEF dom
    <3>2. f \in DefaultFields => c[f] # Defaults[f]
      BY <1>3, <1>7, <2>3
    <3>3. f \in DOMAIN s.cli \/ f \in DOMAIN s.env
      BY <1>1, <1>4, <3>1, <3>2
    <3>4. got[f] = c[f]
      BY <1>1, <2>3, <3>1
    <3>5. c[f] = file[f]
      <4>1. CASE f \in DOMAIN s.cli
        BY <1>1, <2>1, <3>1, <4>1
      <4>2. CASE f \notin DOMAIN s.cli
        BY <1>1, <2>1, <3>1, <3>3, <4>2
      <4> QED
        BY <4>1, <4>2
    <3> QED
      BY <3>4, <3>5
  <2> QED
    BY <2>2, <2>3
<1>8. ASSUME GivenTo(s, f) = {}
      PROVE  IF f \in DefaultFields THEN got[f] = Defaults[f] ELSE f \notin DOMAIN got
  <2>1. f \notin DOMAIN s.cli /\ f \notin DOMAIN s.env /\ f \notin DOMAIN file
    BY <1>8, Gives DEF file
  <2> QED
    BY <1>1, <1>3, <1>4, <2>1
<1> QED
  BY <1>5, <1>6, <1>7, <1>8 DEF got, file

(* The promise of apply_file for the flags.                                *)
LEMMA FlagsHonoured ==
  ASSUME NEW s \in Setups, NEW f \in Flags
  PROVE  LoadedConfig(s)[f] = (TRUE \in GivenTo(s, f))
<1> DEFINE file == FileValuesOf(s)
           c    == Parse(s)
           dom  == DOMAIN s.cli \cup DOMAIN s.env \cup DefaultFields \cup Flags \cup CliFlags
           got  == LoadedConfig(s)
           on   == TRUE \in GivenTo(s, f)
<1>1. /\ f \in dom
      /\ c[f] = IF f \in DOMAIN s.cli THEN s.cli[f]
                ELSE IF f \in DOMAIN s.env THEN s.env[f]
                ELSE IF f \in DefaultFields THEN Defaults[f] ELSE FALSE
      /\ got[f] = IF f \in Fills(c, file) THEN file[f] ELSE c[f]
  BY ValueOf
<1>2. f \notin OptionFields /\ f \notin DefaultFields
  BY KindsOfFields
<1>3. f \in Fills(c, file) <=> f \in DOMAIN file /\ file[f]
  BY <1>2, Zenon DEF Fills
<1>4. /\ f \in DOMAIN file => file[f] \in BOOLEAN
      /\ f \in DOMAIN s.cli => s.cli[f] = TRUE
      /\ f \in DOMAIN s.env => s.env[f] \in BOOLEAN
  <2>1. IsAssignment(file) /\ IsAssignment(s.env) /\ \A g \in DOMAIN s.cli \cap Flags : s.cli[g] = TRUE
    BY FileGives
  <2>2. f \in DOMAIN file => file[f] \in BOOLEAN
    BY <2>1, Zenon DEF IsAssignment
  <2>3. f \in DOMAIN s.env => s.env[f] \in BOOLEAN
    BY <2>1, Zenon DEF IsAssignment
  <2> QED
    BY <2>1, <2>2, <2>3
<1>5. on <=>
        \/ f \in DOMAIN s.cli /\ TRUE = s.cli[f]
        \/ f \in DOMAIN s.env /\ TRUE = s.env[f]
        \/ f \in DOMAIN file /\ TRUE = file[f]
  BY Gives, Zenon
<1> HIDE DEF c, file, got, on
<1>6. CASE f \in DOMAIN file /\ file[f]
  <2>1. file[f] = TRUE /\ got[f] = file[f]
    BY <1>1, <1>3, <1>4, <1>6
  <2> QED
    BY <1>5, <1>6, <2>1 DEF got, on
<1>7. CASE ~(f \in DOMAIN file /\ file[f])
  <2>1. got[f] = c[f]
    BY <1>1, <1>3, <1>7
  <2>2. CASE f \in DOMAIN s.cli
    <3>1. got[f] = TRUE
      BY <1>1, <1>4, <2>1, <2>2
    <3> QED
      BY <1>4, <1>5, <2>2, <3>1 DEF got, on
  <2>3. CASE f \notin DOMAIN s.cli /\ f \in DOMAIN s.env
    <3>1. got[f] = s.env[f] /\ s.env[f] \in BOOLEAN
      BY <1>1, <1>4, <2>1, <2>3
    <3>2. on <=> TRUE = s.env[f]
      BY <1>5, <1>7, <2>3
    <3>3. on \in BOOLEAN
      BY DEF on
    <3>4. got[f] = on
      BY <3>1, <3>2, <3>3
    <3> QED
      BY <3>4 DEF got, on
  <2>4. CASE f \notin DOMAIN s.cli /\ f \notin DOMAIN s.env
    <3>1. got[f] = FALSE
      BY <1>1, <1>2, <2>1, <2>4
    <3>2. f \in DOMAIN file => file[f] # TRUE
      BY <1>7
    <3>3. on = FALSE
      <4>1. ~on
        BY <1>5, <2>4, <3>2
      <4>2. on \in BOOLEAN
        BY DEF on
      <4> QED
        BY <4>1, <4>2
    <3>4. got[f] = on
      BY <3>1, <3>3
    <3> QED
      BY <3>4 DEF got, on
  <2> QED
    BY <2>2, <2>3, <2>4
<1> QED
  BY <1>6, <1>7

(* A sequence names finitely many hooks.                                   *)
LEMMA FiniteRange ==
  ASSUME NEW S, NEW r \in Seq(S)
  PROVE  IsFiniteSet(Range(r))
<1>1. DOMAIN r = 1 .. Len(r) /\ Len(r) \in Nat
  OBVIOUS
<1>2. IsFiniteSet(1 .. Len(r))
  BY <1>1, FS_Interval
<1>3. r \in Surjection(1 .. Len(r), Range(r))
  BY <1>1 DEF Surjection, Range
<1> QED
  BY <1>2, <1>3, FS_Surjection

(* Appending a hook that is not there yet.                                 *)
LEMMA HookAppended ==
  ASSUME NEW S, NEW r \in Seq(S), NEW h \in S
  PROVE  /\ Append(r, h) \in Seq(S) /\ Len(Append(r, h)) = Len(r) + 1
         /\ Range(Append(r, h)) = Range(r) \cup {h}
         /\ \A i \in 1 .. Len(r) : Append(r, h)[i] = r[i]
<1> DEFINE u == Append(r, h)
<1>1. /\ u \in Seq(S) /\ Len(u) = Len(r) + 1 /\ Len(r) \in Nat
      /\ DOMAIN u = 1 .. Len(r) + 1 /\ DOMAIN r = 1 .. Len(r)
      /\ u[Len(r) + 1] = h /\ \A i \in 1 .. Len(r) : u[i] = r[i]
  OBVIOUS
<1> HIDE DEF u
<1>2. \A x : x \in Range(u) <=> \E i \in 1 .. Len(r) + 1 : u[i] = x
  BY <1>1 DEF Range
<1>3. \A x : x \in Range(r) <=> \E i \in 1 .. Len(r) : r[i] = x
  BY <1>1 DEF Range
<1>4. \A i \in 1 .. Len(r) + 1 : i = Len(r) + 1 \/ i \in 1 .. Len(r)
  BY <1>1
<1>5. Len(r) + 1 \in 1 .. Len(r) + 1 /\ \A i \in 1 .. Len(r) : i \in 1 .. Len(r) + 1
  BY <1>1
<1>6. ASSUME NEW x \in Range(u) PROVE x \in Range(r) \cup {h}
  <2>1. PICK i \in 1 .. Len(r) + 1 : u[i] = x
    BY <1>2, <1>6
  <2> QED
    BY <1>1, <1>3, <1>4, <2>1
<1>7. ASSUME NEW x \in Range(r) \cup {h} PROVE x \in Range(u)
  <2>1. CASE x = h
    BY <1>1, <1>2, <1>5, <2>1
  <2>2. CASE x \in Range(r)
    <3>1. PICK i \in 1 .. Len(r) : r[i] = x
      BY <1>3, <2>2
    <3> QED
      BY <1>1, <1>2, <1>5, <3>1
  <2> QED
    BY <2>1, <2>2
<1>8. Range(u) = Range(r) \cup {h}
  BY <1>6, <1>7
<1> QED
  BY <1>1, <1>8 DEF u

(* What r keeps and gains when the hooks in the set T are added to hs.     *)
IsMerge(r, hs, T, S) ==
  /\ r \in Seq(S)
  /\ Range(r) = Range(hs) \cup T
  /\ Len(hs) <= Len(r) /\ \A i \in 1 .. Len(hs) : r[i] = hs[i]
  /\ Cardinality(Range(hs)) = Len(hs) => Cardinality(Range(r)) = Len(r)

(* One hook of the file is added.                                          *)
LEMMA HookAdded ==
  ASSUME NEW S, NEW hs \in Seq(S), NEW r, NEW T, IsMerge(r, hs, T, S), NEW h \in S
  PROVE  IsMerge(AddHook(r, h), hs, T \cup {h}, S)
<1>1. /\ r \in Seq(S) /\ Range(r) = Range(hs) \cup T
      /\ Len(hs) <= Len(r) /\ \A i \in 1 .. Len(hs) : r[i] = hs[i]
      /\ Cardinality(Range(hs)) = Len(hs) => Cardinality(Range(r)) = Len(r)
      /\ Len(r) \in Nat /\ Len(hs) \in Nat
  BY DEF IsMerge
<1>2. CASE h \in Range(r)
  <2>1. AddHook(r, h) = r
    BY <1>2 DEF AddHook
  <2>2. Range(r) = Range(hs) \cup (T \cup {h})
    BY <1>1, <1>2
  <2> QED
    BY <1>1, <2>1, <2>2 DEF IsMerge
<1>3. CASE h \notin Range(r)
  <2> DEFINE u == Append(r, h)
  <2>1. AddHook(r, h) = u
    BY <1>3 DEF AddHook
  <2>2. /\ u \in Seq(S) /\ Len(u) = Len(r) + 1
        /\ Range(u) = Range(r) \cup {h}
        /\ \A i \in 1 .. Len(r) : u[i] = r[i]
    BY <1>1, HookAppended
  <2> HIDE DEF u
  <2>3. Range(u) = Range(hs) \cup (T \cup {h})
    BY <1>1, <2>2
  <2>4. Cardinality(Range(u)) = Cardinality(Range(r)) + 1
    <3>1. IsFiniteSet(Range(r))
      BY <1>1, FiniteRange
    <3> QED
      BY <1>3, <2>2, <3>1, FS_AddElement
  <2>5. Len(hs) <= Len(u) /\ \A i \in 1 .. Len(hs) : u[i] = hs[i]
    BY <1>1, <2>2
  <2>6. Cardinality(Range(hs)) = Len(hs) => Cardinality(Range(u)) = Len(u)
    BY <1>1, <2>2, <2>4
  <2> QED
    BY <2>1, <2>2, <2>3, <2>5, <2>6 DEF IsMerge
<1> QED
  BY <1>2, <1>3

(* The recursion of AppendHooks has a solution.                            *)
LEMMA AddedExists ==
  ASSUME NEW S, NEW hs \in Seq(S), NEW fh \in Seq(S)
  PROVE  \E f : f = [i \in 0 .. Len(fh) |-> IF i = 0 THEN hs ELSE AddHook(f[i - 1], fh[i])]
<1> DEFINE One(f, i) == AddHook(f[i - 1], fh[i])
<1> DEFINE Good(n) ==
      \E f : f = [i \in 0 .. n |-> IF i = 0 THEN hs ELSE One(f, i)]
<1> DEFINE G == {n \in Nat : Good(n)}
<1>0. Len(fh) \in Nat
  OBVIOUS
<1>1. Good(0)
  <2> DEFINE f == [i \in 0 .. 0 |-> hs]
  <2>1. f = [i \in 0 .. 0 |-> IF i = 0 THEN hs ELSE One(f, i)]
    OBVIOUS
  <2> HIDE DEF f
  <2> QED
    BY <2>1
<1>2. ASSUME NEW n \in Nat, Good(n) PROVE Good(n + 1)
  <2>1. PICK g : g = [i \in 0 .. n |-> IF i = 0 THEN hs ELSE One(g, i)]
    BY <1>2
  <2> DEFINE f == [i \in 0 .. n + 1 |-> IF i = 0 THEN hs ELSE One(g, i)]
  <2>2. ASSUME NEW i \in 0 .. n + 1, i # 0 PROVE f[i - 1] = g[i - 1]
    <3>1. i - 1 \in 0 .. n /\ i - 1 \in 0 .. n + 1
      BY <2>2
    <3> HIDE DEF One
    <3>2. f[i - 1] = IF i - 1 = 0 THEN hs ELSE One(g, i - 1)
      BY <3>1
    <3>3. g[i - 1] = IF i - 1 = 0 THEN hs ELSE One(g, i - 1)
      BY <2>1, <3>1
    <3> QED
      BY <3>2, <3>3
  <2> HIDE DEF f
  <2>3. \A i \in 0 .. n + 1 : i # 0 => One(f, i) = One(g, i)
    BY <2>2
  <2> HIDE DEF One
  <2>4. f = [i \in 0 .. n + 1 |-> IF i = 0 THEN hs ELSE One(f, i)]
    BY <2>3 DEF f
  <2> QED
    BY <2>4
<1> HIDE DEF Good
<1>3. 0 \in G /\ \A n \in 0 .. Len(fh) - 1 : n \in G => n + 1 \in G
  BY <1>0, <1>1, <1>2
<1> HIDE DEF G
<1>4. Len(fh) \in G
  <2>1. \A n \in 0 .. Len(fh) : n \in G
    BY <1>0, <1>3, UpTo
  <2> QED
    BY <1>0, <2>1
<1> QED
  BY <1>4 DEF G, Good

(* What apply_file makes of the two lists of hooks: those of the command   *)
(* line, then those of the file that are new, none dropped and none        *)
(* doubled.                                                                *)
LEMMA HooksMerged ==
  ASSUME NEW S, NEW hs \in Seq(S), NEW fh \in Seq(S)
  PROVE  IsMerge(AppendHooks(hs, fh), hs, Range(fh), S)
<1> DEFINE f == CHOOSE g : g = [i \in 0 .. Len(fh) |->
                  IF i = 0 THEN hs ELSE AddHook(g[i - 1], fh[i])]
<1>1. Len(fh) \in Nat /\ DOMAIN fh = 1 .. Len(fh) /\ \A i \in 1 .. Len(fh) : fh[i] \in S
  OBVIOUS
<1>2. \E g : g = [i \in 0 .. Len(fh) |-> IF i = 0 THEN hs ELSE AddHook(g[i - 1], fh[i])]
  BY AddedExists
<1>3. f = [i \in 0 .. Len(fh) |-> IF i = 0 THEN hs ELSE AddHook(f[i - 1], fh[i])]
  BY <1>2, Zenon
<1>4. AppendHooks(hs, fh) = f[Len(fh)]
  BY Zenon DEF AppendHooks
<1> HIDE DEF f
<1>5. f[0] = hs
  BY <1>1, <1>3
<1>6. ASSUME NEW n \in 0 .. Len(fh) - 1 PROVE f[n + 1] = AddHook(f[n], fh[n + 1])
  <2>1. n + 1 \in 0 .. Len(fh) /\ n + 1 # 0 /\ (n + 1) - 1 = n
    BY <1>1
  <2>2. f[n + 1] = AddHook(f[(n + 1) - 1], fh[n + 1])
    BY <1>3, <2>1
  <2> QED
    BY <2>1, <2>2
<1> DEFINE Upto(n) == {fh[j] : j \in 1 .. n}
           Good(n) == IsMerge(f[n], hs, Upto(n), S)
           G == {n \in Nat : Good(n)}
<1>7. Good(0)
  <2>1. Upto(0) = {}
    OBVIOUS
  <2>2. IsMerge(hs, hs, {}, S)
    BY DEF IsMerge
  <2> HIDE DEF Upto
  <2> QED
    BY <1>5, <2>1, <2>2
<1>8. ASSUME NEW n \in 0 .. Len(fh) - 1, Good(n) PROVE Good(n + 1)
  <2>1. fh[n + 1] \in S /\ n \in Nat
    BY <1>1
  <2>2. Upto(n + 1) = Upto(n) \cup {fh[n + 1]}
    <3>1. 1 .. n + 1 = (1 .. n) \cup {n + 1}
      BY <2>1
    <3> QED
      BY <3>1
  <2> HIDE DEF Upto
  <2>3. IsMerge(AddHook(f[n], fh[n + 1]), hs, Upto(n) \cup {fh[n + 1]}, S)
    BY <1>8, <2>1, HookAdded
  <2> QED
    BY <1>6, <2>2, <2>3
<1> HIDE DEF Good
<1>9. 0 \in G /\ \A n \in 0 .. Len(fh) - 1 : n \in G => n + 1 \in G
  BY <1>1, <1>7, <1>8
<1> HIDE DEF G
<1>10. Good(Len(fh))
  <2>1. \A n \in 0 .. Len(fh) : n \in G
    BY <1>1, <1>9, UpTo
  <2>2. Len(fh) \in G
    BY <1>1, <2>1
  <2> QED
    BY <2>2 DEF G
<1>11. Upto(Len(fh)) = Range(fh)
  BY <1>1 DEF Range
<1> HIDE DEF Upto
<1> QED
  BY <1>4, <1>10, <1>11 DEF Good

(* A sequence that begins like another has it as a prefix.                 *)
LEMMA BeginsLike ==
  ASSUME NEW S, NEW hs \in Seq(S), NEW r \in Seq(S), Len(hs) <= Len(r),
         \A i \in 1 .. Len(hs) : r[i] = hs[i]
  PROVE  IsPrefix(hs, r)
<1>1. Len(hs) \in Nat /\ Len(r) \in Nat
  OBVIOUS
<1>2. SubSeq(hs, 1, Len(hs)) = SubSeq(r, 1, Len(hs))
  BY <1>1
<1> QED
  BY <1>2 DEF IsPrefix

(* The promise of apply_file for the hooks.                                *)
LEMMA HooksHonoured ==
  ASSUME NEW s \in Setups
  PROVE  LET fileHooks == IF Readable(s) = {} THEN <<>> ELSE FileOf(s).hooks
             hs        == LoadedHooks(s)
         IN  /\ hs \in Seq(STRING)
             /\ Range(hs) = Range(s.cli_hooks) \cup Range(fileHooks)
             /\ IsPrefix(s.cli_hooks, hs)
             /\ Cardinality(Range(s.cli_hooks)) = Len(s.cli_hooks) =>
                  Cardinality(Range(hs)) = Len(hs)
<1>1. s.cli_hooks \in Seq(STRING)
  BY StartupAssumption DEF IsSetup
<1>2. CASE Readable(s) = {}
  <2>1. LoadedHooks(s) = s.cli_hooks
    BY <1>2 DEF LoadedHooks
  <2>2. Range(<<>>) = {}
    BY DEF Range
  <2>3. IsPrefix(s.cli_hooks, s.cli_hooks)
    BY <1>1, BeginsLike
  <2> QED
    BY <1>1, <1>2, <2>1, <2>2, <2>3
<1>3. CASE Readable(s) # {}
  <2> DEFINE hs == LoadedHooks(s)
             fh == FileOf(s).hooks
             ch == s.cli_hooks
  <2>1. hs = AppendHooks(ch, fh) /\ fh \in Seq(STRING)
    BY <1>3, FileLoaded DEF LoadedHooks
  <2>2. IsMerge(AppendHooks(ch, fh), ch, Range(fh), STRING)
    BY <1>1, <2>1, HooksMerged
  <2> HIDE DEF hs, fh, ch
  <2>3. /\ hs \in Seq(STRING) /\ Range(hs) = Range(ch) \cup Range(fh)
        /\ Len(ch) <= Len(hs) /\ \A i \in 1 .. Len(ch) : hs[i] = ch[i]
        /\ Cardinality(Range(ch)) = Len(ch) => Cardinality(Range(hs)) = Len(hs)
    BY <2>1, <2>2 DEF IsMerge
  <2>4. IsPrefix(ch, hs)
    BY <1>1, <2>3, BeginsLike DEF ch
  <2> QED
    BY <1>3, <2>3, <2>4 DEF hs, fh, ch
<1> QED
  BY <1>2, <1>3

(* The promise of apply_file for the verbosity.                            *)
LEMMA VerboseHonoured ==
  ASSUME NEW s \in Setups
  PROVE  /\ LoadedVerbose(s) \in 0 .. 2
         /\ LET asked == {s.cli_verbose} \cup
                         IF Readable(s) = {} THEN {} ELSE {FileOf(s).verbose}
            IN  LoadedVerbose(s) \in asked /\ \A v \in asked : LoadedVerbose(s) >= v
<1>1. s.cli_verbose \in 0 .. 2
  BY StartupAssumption DEF IsSetup
<1>2. Readable(s) # {} => FileOf(s).verbose \in 0 .. 2
  BY FileLoaded
<1> QED
  BY <1>1, <1>2 DEF LoadedVerbose, HigherOf

(* What is loaded honours the settings.                                    *)
LEMMA LoadedHonours == MainInv => SettingsHonoured
<1> SUFFICES ASSUME MainInv, pc \notin {"down", "load"} PROVE SettingsHonoured
  BY DEF SettingsHonoured
<1>1. setup \in Setups /\ Loaded
  BY DEF MainInv
<1>2. FileValues = FileValuesOf(setup)
  BY DEF FileValues, FileValuesOf
<1>3. \A f : GivenBy(f) = GivenTo(setup, f)
  BY <1>2 DEF GivenBy, GivenTo
<1>4. \A f \in OptionFields \cup DefaultFields :
         LET unlike(a) == f \in DOMAIN a /\ (f \in DefaultFields => a[f] # Defaults[f])
         IN  /\ unlike(setup.cli) => config[f] = setup.cli[f]
             /\ f \notin DOMAIN setup.cli /\ unlike(setup.env) =>
                  config[f] = setup.env[f]
             /\ f \in DOMAIN FileValues /\ Cardinality(GivenBy(f)) = 1 =>
                  config[f] = FileValues[f]
             /\ GivenBy(f) = {} =>
                  IF f \in DefaultFields THEN config[f] = Defaults[f]
                                         ELSE f \notin DOMAIN config
  BY <1>1, <1>2, <1>3, FieldsHonoured DEF Loaded
<1>5. \A f \in Flags : config[f] = (TRUE \in GivenBy(f))
  BY <1>1, <1>3, FlagsHonoured DEF Loaded
<1>6. LET fileHooks == IF Readable(setup) = {} THEN <<>> ELSE FileOf(setup).hooks
      IN  /\ Range(hooks) = Range(setup.cli_hooks) \cup Range(fileHooks)
          /\ IsPrefix(setup.cli_hooks, hooks)
          /\ Cardinality(Range(setup.cli_hooks)) = Len(setup.cli_hooks) =>
               Cardinality(Range(hooks)) = Len(hooks)
  BY <1>1, HooksHonoured DEF Loaded
<1>7. LET asked == {setup.cli_verbose} \cup
                    IF Readable(setup) = {} THEN {} ELSE {FileOf(setup).verbose}
      IN  verbose \in asked /\ \A v \in asked : verbose >= v
  BY <1>1, VerboseHonoured DEF Loaded
<1> QED
  BY <1>4, <1>5, <1>6, <1>7, Zenon DEF SettingsHonoured

(* The two invariants give every variable its type.                        *)
LEMMA Types == MainInv /\ KeysInv => TypeOK
<1> SUFFICES ASSUME MainInv, KeysInv PROVE TypeOK
  OBVIOUS
<1>1. IsAssignment(config)
  <2>1. CASE Loaded
    BY <2>1, ConfigTyped DEF Loaded, MainInv
  <2>2. CASE NotLoaded
    BY <2>2 DEF NotLoaded, IsAssignment
  <2> QED
    BY <2>1, <2>2 DEF MainInv
<1>2. hooks \in Seq(STRING)
  <2>1. CASE Loaded
    BY <2>1, HooksHonoured DEF Loaded, MainInv
  <2>2. CASE NotLoaded
    BY <2>2 DEF NotLoaded
  <2> QED
    BY <2>1, <2>2 DEF MainInv
<1>3. verbose \in 0 .. 2
  <2>1. CASE Loaded
    BY <2>1, VerboseHonoured DEF Loaded, MainInv
  <2>2. CASE NotLoaded
    BY <2>2 DEF NotLoaded
  <2> QED
    BY <2>1, <2>2 DEF MainInv
<1>4. minted \in 0 .. 2 * MaxStarts /\ starts \in 0 .. MaxStarts
  BY PairNumbers DEF KeysInv, KeyTypes
<1>5. key_file \in [KeyNames -> 0 .. Torn]
  <2>1. \A k \in KeyNames : key_file[k] \in Nat /\ (key_file[k] = Torn \/ key_file[k] <= minted)
    BY DEF KeysInv, KeyTypes, KeysFollowFiles
  <2>2. minted \in Nat /\ Torn \in Nat /\ minted < Torn
    BY PairNumbers
  <2>3. \A k \in KeyNames : key_file[k] \in 0 .. Torn
    BY <2>1, <2>2
  <2> QED
    BY <2>3 DEF KeysInv, KeyTypes
<1>6. keys \in [KeyNames -> 0 .. minted] /\ warned \in BOOLEAN
  BY DEF KeysInv, KeyTypes
<1>7. setup \in Setups /\ pc \in Places /\ upstream \in {"none", "v4", "v6"}
      /\ tasks \subseteq Spawned /\ clock_right \in BOOLEAN
  BY DEF MainInv
<1> QED
  BY <1>1, <1>2, <1>3, <1>4, <1>5, <1>6, <1>7, Zenon DEF TypeOK, Places, Spawned

(* For any settings, any number of starts and every failure of the steps   *)
(* of main: the settings in force are those apply_file promises, from the  *)
(* load to the end of the process, and the keys follow their files.        *)
THEOREM StartupInvariant == Spec => []StartupInv
<1>1. MainInv /\ KeysInv => StartupInv
  BY LoadedHonours, Types DEF StartupInv, KeysInv
<1>2. Init => MainInv /\ KeysInv
  BY MainInit, KeysInit
<1>3. (MainInv /\ KeysInv) /\ [Next]_vars => (MainInv /\ KeysInv)'
  BY MainInvStep, KeysStep
<1> QED
  BY <1>1, <1>2, <1>3, PTL DEF Spec
=============================================================================
