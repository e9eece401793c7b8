------------------------------ MODULE Tui_proofs ------------------------------
(***************************************************************************)
(* The terminal interface for any number of files and API keys, of         *)
(* messages under way and of keys pressed while they are.                  *)
(***************************************************************************)
EXTENDS Tui, SequenceSets

(* The commands and messages under way, without their number.              *)
Sent == BagToSet(flight)

(* The browser is the first view, and stays so until the program ends.     *)
Grounded == ended = "no" => stack # <<>> /\ stack[1] = "browser"

(* As long as no key crossed a pop: at most one is under way, there is a   *)
(* view left below the one it takes, and no reload will take that one.     *)
PopsFit ==
    /\ ended = "underflow" => "pop" \in rushed
    /\ ended = "no" /\ "pop" \notin rushed /\ Pop \in Sent =>
          Len(stack) >= 2 /\ flight[Pop] = 1 /\ ~UnderWay({"reload", "reloaded"})

(* No key crossed a window about to open, or a dialog about to be set.     *)
Steady == ended = "no" /\ rushed \cap {"push", "setkind"} = {}

(* Then the prompt is on top wherever it is, a dialog is open in it only,  *)
(* and one window at a time is about to open, over another than a prompt.  *)
PromptFits ==
    Steady =>
        /\ \A n \in 1..Len(stack) : stack[n] = "prompt" => n = Len(stack)
        /\ dialog # "none" => Top = "prompt"
        /\ \A v \in Views : Push(v) \in Sent =>
              /\ Top # "prompt"
              /\ flight[Push(v)] = 1
              /\ \A w \in Views : Push(w) \in Sent => w = v

(* And the cursor of the options is on one, and will be should the prompt  *)
(* for the visibility make the file public: then there is one less.        *)
IndexFits ==
    /\ ended = "overrun" => ~(rushed \cap {"push", "setkind"} = {})
    /\ Steady =>
        /\ index <= Len(Offered(copy))
        /\ dialog = "visibility" \/ SetKind("visibility") \in Sent => index <= 4

(* A copy that would make a private file public does so by the user's last *)
(* yes, if no one else has changed the file since.                         *)
Consented(file) ==
    ~file.private /\ db[file.id] = "private" /\ file.id \in ours => file.id \in asked

(* Unless a key crossed a load, the prompt and the messages have no other. *)
AllConsented ==
    "load" \notin rushed =>
        /\ Consented(copy)
        /\ \A m \in Sent : m.kind = "loaded" => Consented(m.file)

(* Unless loads may cross, all are of the file chosen last, and when none  *)
(* is under way the prompt has that file.                                  *)
LoadsChosen ==
    ended = "no" /\ ~crossed =>
        /\ \A m \in Sent : m.kind = "load" => m.id = chosen
        /\ \A m \in Sent : m.kind = "loaded" => m.file.id = chosen
        /\ copy.id = chosen \/ UnderWay({"load", "loaded", "quit"})

(* A list that shows what the database has of the files that others have   *)
(* not changed since this session did.                                     *)
Fresh(list) ==
    \A i \in Item : i.id \in ours =>
        (i \in list <=> Exists(i.id) /\ (i.private <=> db[i.id] = "private"))

(* What this session deletes no one changes any more.                      *)
DeletedByUs == \A f \in Files : db[f] = "deleted" => f \in ours

(* Unless a key crossed a reload, a list on its way is fresh, and the one  *)
(* shown is or will be replaced.                                           *)
ItemsFresh ==
    ended = "no" /\ "pop" \notin rushed =>
        /\ \A m \in Sent : m.kind = "reloaded" => Fresh(m.items)
        /\ Fresh(items) \/ UnderWay({"reload", "reloaded", "quit"})

HasOptions ==
    \/ Push("options") \in Sent
    \/ \E n \in 1..Len(stack) : stack[n] = "options"

(* An options window is there, or on its way, for a file that was chosen.  *)
(* If this session deletes the file, a reload is under way that takes the  *)
(* window out of the stack, and no push under way puts it back.            *)
OptionsFit ==
    ended = "no" =>
        /\ HasOptions => chosen \in Files
        /\ rushed \cap {"push", "pop"} = {} =>
              /\ UnderWay({"push"}) => ~UnderWay({"reload", "reloaded"})
              /\ HasOptions /\ ~crossed => \/ db[chosen] # "deleted"
                                           \/ UnderWay({"reload", "reloaded", "quit"})

(* An armed key is the one of the last x, and none is armed while another  *)
(* key is being created.                                                   *)
ArmedByX ==
    page = "apikeys" => /\ creating # "no" => armed = 0
                        /\ armed # 0 => pressed = armed

Core == Grounded /\ PopsFit /\ LoadsChosen /\ ItemsFresh /\ OptionsFit
Care == PromptFits /\ IndexFits /\ AllConsented /\ DeletedByUs

TInv == TypeOK /\ IsABag(flight) /\ Core /\ Care /\ ArmedByX

-----------------------------------------------------------------------------
(* Messages. *)

(* What a message says of itself.                                          *)
LEMMA Kinds ==
    /\ \A v : Push(v).kind = "push" /\ Push(v).view = v
    /\ Pop.kind = "pop" /\ Quit.kind = "quit" /\ Deselect.kind = "deselect"
    /\ Reload.kind = "reload"
    /\ \A d : SetKind(d).kind = "setkind" /\ SetKind(d).dialog = d
    /\ \A b : Feedback(b).kind = "feedback"
    /\ \A f : Load(f).kind = "load" /\ Load(f).id = f
    /\ \A i : Loaded(i).kind = "loaded" /\ Loaded(i).file = i
    /\ \A l : Reloaded(l).kind = "reloaded" /\ Reloaded(l).items = l
BY DEF Push, Pop, Quit, Deselect, Reload, SetKind, Feedback, Load, Loaded, Reloaded

LEMMA MessageTypes ==
    /\ \A v \in Views : Push(v) \in Messages
    /\ Pop \in Messages /\ Quit \in Messages /\ Deselect \in Messages /\ Reload \in Messages
    /\ \A d \in Dialogs : SetKind(d) \in Messages
    /\ \A b \in BOOLEAN : Feedback(b) \in Messages
    /\ \A f \in Files : Load(f) \in Messages
    /\ \A i \in Item : Loaded(i) \in Messages
    /\ \A l \in SUBSET Item : Reloaded(l) \in Messages
BY DEF Messages

LEMMA MessageParts ==
    ASSUME NEW m \in Messages
    PROVE  /\ m.kind = "pop" => m = Pop
           /\ m.kind = "push" => m.view \in Views /\ m = Push(m.view)
           /\ m.kind = "setkind" => m.dialog \in Dialogs /\ m = SetKind(m.dialog)
           /\ m.kind = "load" => m.id \in Files
           /\ m.kind = "loaded" => m.file \in Item
           /\ m.kind = "reloaded" => m.items \subseteq Item
BY Kinds DEF Messages

(* A key adds its messages to those under way.                             *)
LEMMA KeyAdds ==
    ASSUME IsABag(flight), NEW msgs, Key(msgs)
    PROVE  /\ IsABag(flight')
           /\ Sent' = Sent \cup msgs
           /\ \A e \in msgs : e \notin Sent => flight'[e] = 1
<1>1. flight' = [e \in DOMAIN flight \cup msgs |->
                    (IF e \in DOMAIN flight THEN flight[e] ELSE 0)
                     + (IF e \in msgs THEN 1 ELSE 0)]
  BY DEF Key, (+), SetToBag
<1>2. \A e \in DOMAIN flight : flight[e] \in Nat /\ flight[e] > 0
  BY DEF IsABag
<1>3. \A e \in DOMAIN flight \cup msgs :
         /\ flight'[e] \in Nat /\ flight'[e] > 0
         /\ e \notin msgs => flight'[e] = flight[e]
         /\ e \notin DOMAIN flight => flight'[e] = 1
  BY <1>1, <1>2
<1>4. DOMAIN flight' = DOMAIN flight \cup msgs
  BY <1>1
<1>5. IsABag(flight')
  BY <1>1, <1>3, <1>4 DEF IsABag
<1> QED
  BY <1>3, <1>4, <1>5 DEF Sent, BagToSet

(* A handler takes its message, once, and may send others.                 *)
LEMMA BecomeTakes ==
    ASSUME IsABag(flight), NEW m, NEW new, BagIn(m, flight), Become(m, new)
    PROVE  /\ IsABag(flight')
           /\ m \in Sent /\ Sent' \subseteq Sent \cup new
           /\ Sent \ {m} \subseteq Sent' /\ new \subseteq Sent'
           /\ flight[m] = 1 /\ m \notin new => m \notin Sent'
           /\ \A e \in Sent : e # m /\ e \notin new => flight'[e] = flight[e]
<1> DEFINE less == [e \in DOMAIN flight |-> IF e = m THEN flight[e] - 1 ELSE flight[e]]
           left == flight (-) SetToBag({m})
<1>1. \A e \in DOMAIN flight : flight[e] \in Nat /\ flight[e] > 0
  BY DEF IsABag
<1>2. left = [e \in {d \in DOMAIN flight : less[d] > 0} |-> less[e]]
  <2>1. [e \in DOMAIN flight |-> IF e \in DOMAIN SetToBag({m}) THEN flight[e] - SetToBag({m})[e]
                                                             ELSE flight[e]] = less
    BY DEF SetToBag
  <2> QED
    BY <2>1 DEF (-)
<1>3. /\ DOMAIN left \subseteq DOMAIN flight
      /\ \A e \in DOMAIN flight : e # m => e \in DOMAIN left /\ left[e] = flight[e]
      /\ \A e \in DOMAIN left : left[e] \in Nat /\ left[e] > 0
      /\ m \in DOMAIN flight /\ flight[m] = 1 => m \notin DOMAIN left
  <2>1. /\ \A e \in DOMAIN flight : e # m => less[e] = flight[e]
        /\ m \in DOMAIN flight => less[m] = flight[m] - 1
        /\ \A e \in DOMAIN flight : less[e] \in Int
    BY <1>1
  <2> HIDE DEF less, left
  <2>2. /\ DOMAIN left = {d \in DOMAIN flight : less[d] > 0}
        /\ \A e \in DOMAIN left : left[e] = less[e]
    BY <1>2
  <2> QED
    BY <1>1, <2>1, <2>2
<1>4. flight' = [e \in DOMAIN left \cup new |->
                    (IF e \in DOMAIN left THEN left[e] ELSE 0) + (IF e \in new THEN 1 ELSE 0)]
  BY DEF Become, (+), SetToBag
<1> HIDE DEF left
<1>5. \A e \in DOMAIN left \cup new :
         /\ flight'[e] \in Nat /\ flight'[e] > 0
         /\ e \notin new => flight'[e] = left[e]
  BY <1>3, <1>4
<1>6. DOMAIN flight' = DOMAIN left \cup new
  BY <1>4
<1>7. IsABag(flight')
  BY <1>4, <1>5, <1>6 DEF IsABag
<1>8. m \in DOMAIN flight
  BY DEF BagIn, BagToSet
<1> QED
  BY <1>3, <1>5, <1>6, <1>7, <1>8 DEF Sent, BagToSet

-----------------------------------------------------------------------------
(* What is left of the stack when the view on top is taken.                *)
LEMMA FrontParts ==
    ASSUME NEW s \in Seq(Views), s # <<>>
    PROVE  /\ Front(s) \in Seq(Views)
           /\ \A n \in 1..Len(Front(s)) : n \in 1..Len(s) /\ Front(s)[n] = s[n]
           /\ Len(s) # 1 => Front(s) # <<>> /\ Front(s)[1] = s[1]
<1>1. PICK n \in Nat : n = Len(s) - 1
  OBVIOUS
<1>2. Len(s) = n + 1 /\ \A i \in 1..n : s[i] \in Views
  BY <1>1
<1>3. Front(s) = [i \in 1..n |-> s[i]]
  <2>1. Front(s) = SubSeq(s, 1, n)
    BY <1>1 DEF Front
  <2> QED
    BY <1>2, <2>1
<1>4. Front(s) \in Seq(Views) /\ Len(Front(s)) = n
  BY <1>2, <1>3
<1>5. \A i \in 1..n : i \in 1..Len(s) /\ Front(s)[i] = s[i]
  BY <1>2, <1>3
<1>6. Len(s) # 1 => n # 0 /\ 1 \in 1..n
  BY <1>2
<1>7. n # 0 => Front(s) # <<>>
  BY <1>4
<1> QED
  BY <1>4, <1>5, <1>6, <1>7

(* dropView keeps what is not dropped, by induction on the views.          *)
LEMMA Dropped ==
    ASSUME NEW view, NEW views \in Seq(Views)
    PROVE  /\ Drop(view, views) \in Seq(Views)
           /\ \A n \in 1..Len(Drop(view, views)) : Drop(view, views)[n] # view
           /\ views # <<>> /\ views[1] # view =>
                Drop(view, views) # <<>> /\ Drop(view, views)[1] = views[1]
           /\ \E k \in Seq(Views) :
                /\ \A i \in 1..Len(k) : \E j \in 1..(Len(views) - 1) : k[i] = views[j]
                /\ Drop(view, views) = k \/ Drop(view, views) = Append(k, Last(views))
                /\ views # <<>> /\ Last(views) # view => Drop(view, views) = Append(k, Last(views))
<1> DEFINE N == Len(views)
           step == [n \in 1..N |-> [k \in Seq(Views) |->
                      IF views[n] = view THEN k ELSE Append(k, views[n])]]
           IsKept(f) == f = [n \in 0..N |-> IF n = 0 THEN <<>>
                                  ELSE IF views[n] = view THEN f[n - 1]
                                  ELSE Append(f[n - 1], views[n])]
<1>1. N \in Nat /\ <<>> \in Seq(Views) /\ \A n \in 1..N : views[n] \in Views
  OBVIOUS
<1>2. step \in [1..N -> [Seq(Views) -> Seq(Views)]]
  BY <1>1
<1>3. PICK f \in [0..N -> Seq(Views)] : IsLoop(f, N, <<>>, step)
  <2> HIDE DEF step, N
  <2> QED
    BY <1>1, <1>2, LoopExists
<1>4. /\ f[0] = <<>>
      /\ \A n \in 1..N : /\ f[n - 1] \in Seq(Views)
                         /\ f[n] = IF views[n] = view THEN f[n - 1]
                                   ELSE Append(f[n - 1], views[n])
  <2>1. f[0] = <<>> /\ \A n \in 1..N : f[n] = step[n][f[n - 1]]
    <3>1. 0 \in 0..N /\ \A n \in 1..N : n \in 0..N /\ n # 0
      BY <1>1
    <3> HIDE DEF step, N
    <3> QED
      BY <1>3, <3>1 DEF IsLoop
  <2>2. ASSUME NEW n \in 1..N
        PROVE  f[n - 1] \in Seq(Views)
    <3>1. n - 1 \in 0..N
      BY <1>1
    <3> HIDE DEF N
    <3> QED
      BY <3>1
  <2>3. ASSUME NEW n \in 1..N, NEW k \in Seq(Views)
        PROVE  step[n][k] = IF views[n] = view THEN k ELSE Append(k, views[n])
    <3> HIDE DEF N
    <3> QED
      OBVIOUS
  <2> HIDE DEF step, N
  <2> QED
    BY <2>1, <2>2, <2>3
<1>5. IsKept(f)
  <2>1. ASSUME NEW n \in 0..N
        PROVE  f[n] = IF n = 0 THEN <<>>
                      ELSE IF views[n] = view THEN f[n - 1]
                      ELSE Append(f[n - 1], views[n])
    <3>1. n = 0 \/ n \in 1..N
      BY <1>1
    <3> HIDE DEF N
    <3> QED
      BY <1>4, <3>1
  <2> HIDE DEF N
  <2> QED
    BY <2>1
<1> DEFINE kept == CHOOSE g : IsKept(g)
<1>6. IsKept(kept) /\ Drop(view, views) = kept[N]
  BY <1>5 DEF Drop
<1>7. \A n \in 0..N : kept[n] = IF n = 0 THEN <<>>
                                ELSE IF views[n] = view THEN kept[n - 1]
                                ELSE Append(kept[n - 1], views[n])
  <2> HIDE DEF kept
  <2> QED
    BY <1>6
<1> HIDE DEF kept
<1> DEFINE Good(k) == /\ k \in Seq(Views)
                      /\ \A i \in 1..Len(k) : k[i] # view
           Of(n) == \A i \in 1..Len(kept[n]) : \E j \in 1..n : kept[n][i] = views[j]
           T == {n \in 0..N : /\ Good(kept[n])
                              /\ Of(n)
                              /\ n > 0 /\ views[1] # view =>
                                   kept[n] # <<>> /\ kept[n][1] = views[1]}
<1>8. 0 \in T
  <2>1. 0 \in 0..N /\ kept[0] = <<>>
    BY <1>1, <1>7
  <2>2. Good(<<>>)
    OBVIOUS
  <2>3. Of(0)
    BY <2>1
  <2> HIDE DEF Good, Of, N
  <2> QED
    BY <2>1, <2>2, <2>3
<1>9. ASSUME NEW n \in 1..N, n - 1 \in T PROVE n \in T
  <2>1. n \in 0..N /\ n - 1 \in 0..N /\ n # 0 /\ Good(kept[n - 1]) /\ views[n] \in Views
    BY <1>1, <1>9
  <2>2. CASE views[n] = view
    <3>1. kept[n] = kept[n - 1]
      BY <1>7, <2>1, <2>2
    <3>2. n = 1 => views[1] = view
      BY <2>2
    <3>3. Of(n)
      <4>1. \A j \in 1..(n - 1) : j \in 1..n
        BY <1>1
      <4> QED
        BY <1>9, <3>1, <4>1
    <3> HIDE DEF Of
    <3> QED
      BY <1>1, <1>9, <2>1, <3>1, <3>2, <3>3
  <2>3. CASE views[n] # view
    <3>1. kept[n] = Append(kept[n - 1], views[n])
      BY <1>7, <2>1, <2>3
    <3>2. n = 1 => kept[n - 1] = <<>>
      BY <1>1, <1>7
    <3>3. n > 1 /\ views[1] # view => kept[n - 1] # <<>> /\ kept[n - 1][1] = views[1]
      BY <1>1, <1>9
    <3>4. PICK k \in Seq(Views), w \in Views : k = kept[n - 1] /\ w = views[n]
      BY <2>1
    <3>5. /\ Append(k, w) \in Seq(Views) /\ Append(k, w) # <<>>
          /\ \A i \in 1..Len(Append(k, w)) : Append(k, w)[i] = w \/ (i \in 1..Len(k) /\ Append(k, w)[i] = k[i])
          /\ k = <<>> => Append(k, w)[1] = w
          /\ k # <<>> => Append(k, w)[1] = k[1]
      OBVIOUS
    <3>6. Good(kept[n])
      BY <2>1, <2>3, <3>1, <3>4, <3>5
    <3>7. views[1] # view => kept[n] # <<>> /\ kept[n][1] = views[1]
      BY <1>1, <3>1, <3>2, <3>3, <3>4, <3>5
    <3>8. Of(n)
      <4>1. \A j \in 1..(n - 1) : j \in 1..n
        BY <1>1
      <4>2. Of(n - 1) /\ n \in 1..n
        BY <1>1, <1>9
      <4> QED
        BY <3>1, <3>4, <3>5, <4>1, <4>2
    <3> HIDE DEF Good, Of
    <3> QED
      BY <2>1, <3>6, <3>7, <3>8
  <2> QED
    BY <2>2, <2>3
<1>10. T = 0..N
  <2> HIDE DEF Good, Of
  <2>1. T \in SUBSET (0..N)
    OBVIOUS
  <2> HIDE DEF T
  <2> QED
    BY <1>1, <1>8, <1>9, <2>1, InductionTo
<1>11. N \in T
  BY <1>1, <1>10
<1>12. views # <<>> => N > 0
  BY <1>1
<1>13. \E k \in Seq(Views) :
         /\ \A i \in 1..Len(k) : \E j \in 1..(N - 1) : k[i] = views[j]
         /\ kept[N] = k \/ kept[N] = Append(k, Last(views))
         /\ views # <<>> /\ Last(views) # view => kept[N] = Append(k, Last(views))
  <2>1. CASE N = 0
    <3>1. kept[N] = <<>> /\ views = <<>>
      BY <1>1, <1>7, <2>1
    <3>2. PICK k \in Seq(Views) : k = <<>>
      OBVIOUS
    <3>3. \A i : i \notin 1..Len(k)
      BY <3>2
    <3> HIDE DEF N
    <3> QED
      BY <3>1, <3>2, <3>3
  <2>2. CASE N # 0
    <3>1. N - 1 \in 0..N /\ N \in 0..N /\ Last(views) = views[N]
      BY <1>1, <2>2 DEF Last
    <3>2. N - 1 \in T
      BY <1>10, <3>1
    <3>3. kept[N - 1] \in Seq(Views) /\ Of(N - 1)
      BY <3>2
    <3>4. kept[N] = IF views[N] = view THEN kept[N - 1] ELSE Append(kept[N - 1], views[N])
      BY <1>7, <2>2, <3>1
    <3> HIDE DEF N
    <3> QED
      BY <3>1, <3>3, <3>4
  <2> QED
    BY <2>1, <2>2
<1>14. \E k \in Seq(Views) :
         /\ \A i \in 1..Len(k) : \E j \in 1..(Len(views) - 1) : k[i] = views[j]
         /\ Drop(view, views) = k \/ Drop(view, views) = Append(k, Last(views))
         /\ views # <<>> /\ Last(views) # view => Drop(view, views) = Append(k, Last(views))
  BY <1>6, <1>13
<1>15. Good(kept[N]) /\ (N > 0 /\ views[1] # view => kept[N] # <<>> /\ kept[N][1] = views[1])
  BY <1>11
<1> QED
  BY <1>6, <1>12, <1>14, <1>15

-----------------------------------------------------------------------------
(* The cursor selects a row: there is one with that many newer ones.       *)
LEMMA SelectedListed ==
    ASSUME SettingsTypeOK, rows # {}
    PROVE  Selected \in rows
<1> DEFINE id == [k \in rows |-> k]
           n == cursor - 1
           Newer(k) == {l \in rows : l > k}
<1>1. /\ IsFiniteSet(rows) /\ rows \subseteq Nat /\ Cardinality(rows) \in Nat
      /\ n \in Nat /\ n < Cardinality(rows)
  <2>1. IsFiniteSet(rows) /\ rows \subseteq Nat
    BY IdsAssumption, FS_Subset DEF SettingsTypeOK
  <2>2. Cardinality(rows) \in Nat
    BY <2>1, FS_CardinalityType
  <2>3. cursor \in 1..Cardinality(rows)
    BY DEF SettingsTypeOK
  <2> QED
    BY <2>1, <2>2, <2>3
<1>2. Numbered(rows, id) /\ Distinct(rows, id) /\ \A k \in rows : Above(rows, id, k) = Newer(k)
  BY <1>1 DEF Numbered, Distinct, Above
<1>3. \E k \in rows : Cardinality(Newer(k)) = n
  <2>1. CASE n = 0
    <3>1. PICK k \in rows : \A e \in rows : id[e] <= id[k]
      <4> HIDE DEF id
      <4> QED
        BY <1>1, <1>2, HasTop
    <3>2. Newer(k) = {}
      <4>1. \A e \in rows : e <= k
        BY <3>1
      <4>2. ASSUME NEW e \in rows PROVE ~(e > k)
        BY <1>1, <4>1
      <4> QED
        BY <4>2
    <3>3. Cardinality(Newer(k)) = 0
      <4> HIDE DEF Newer
      <4> QED
        BY <3>2, FS_EmptySet
    <3> QED
      BY <2>1, <3>3
  <2>2. CASE n # 0
    <3> DEFINE O == Old(rows, id, n)
    <3>1. O # {} /\ Cardinality(rows \ O) = n
      <4>1. n \in Nat \ {0}
        BY <1>1, <2>2
      <4> HIDE DEF id, n
      <4> QED
        BY <1>1, <1>2, <4>1, OldSome, OldCount
    <3>2. O \subseteq rows /\ IsFiniteSet(O) /\ Numbered(O, id)
      <4>1. O \subseteq rows
        BY DEF Old
      <4> HIDE DEF O, id
      <4> QED
        BY <1>1, <1>2, <4>1, FS_Subset DEF Numbered
    <3>3. PICK k \in O : \A e \in O : id[e] <= id[k]
      <4> HIDE DEF O, id
      <4> QED
        BY <3>1, <3>2, HasTop
    <3>4. \A e \in rows : e <= k => e \in O
      <4>1. \A e \in rows : id[e] <= id[k] => e \in O
        <5> TAKE e \in rows
        <5> HIDE DEF id, n
        <5> QED
          BY <1>1, <1>2, <3>2, <3>3, OldClosed DEF O
      <4> QED
        BY <3>2, <4>1
    <3>5. Newer(k) = rows \ O
      <4>1. \A e \in O : e <= k
        BY <3>2, <3>3
      <4> HIDE DEF O
      <4>2. ASSUME NEW e \in rows PROVE e > k <=> ~(e <= k)
        BY <1>1, <3>2
      <4> QED
        BY <3>2, <3>4, <4>1, <4>2
    <3> QED
      BY <3>1, <3>2, <3>5
  <2> QED
    BY <2>1, <2>2
<1> QED
  BY <1>3 DEF Selected

-----------------------------------------------------------------------------
(* Keys.  What a key crosses is remembered in rushed.                      *)

LEMMA KeyRushed ==
    ASSUME NEW msgs, Key(msgs)
    PROVE  /\ ended = "no" /\ ended' = "no"
           /\ rushed \subseteq rushed'
           /\ "push" \notin rushed' => ~UnderWay({"push"})
           /\ "pop" \notin rushed' => ~UnderWay({"pop", "reload", "reloaded"})
           /\ "setkind" \notin rushed' => ~UnderWay({"setkind"})
           /\ "load" \notin rushed' => ~UnderWay({"load", "loaded"})
           /\ rushed' \cap {"push", "pop"} = {} =>
                /\ rushed \cap {"push", "pop"} = {}
                /\ ~UnderWay({"push"})
                /\ ~UnderWay({"pop", "reload", "reloaded"})
<1>1. /\ ended = "no" /\ ended' = "no" /\ rushed \subseteq rushed'
      /\ \A k \in {"push", "pop", "setkind", "load"} : UnderWay(Stages(k)) => k \in rushed'
  BY DEF Key
<1>2. /\ Stages("push") = {"push"} /\ Stages("pop") = {"pop", "reload", "reloaded"}
      /\ Stages("setkind") = {"setkind"} /\ Stages("load") = {"load", "loaded"}
  BY DEF Stages
<1>3. /\ "push" \notin rushed' => ~UnderWay({"push"})
      /\ "pop" \notin rushed' => ~UnderWay({"pop", "reload", "reloaded"})
      /\ "setkind" \notin rushed' => ~UnderWay({"setkind"})
      /\ "load" \notin rushed' => ~UnderWay({"load", "loaded"})
  BY <1>1, <1>2, Zenon
<1>4. rushed' \cap {"push", "pop"} = {} =>
        rushed \cap {"push", "pop"} = {} /\ "push" \notin rushed' /\ "pop" \notin rushed'
  BY <1>1
<1> QED
  BY <1>1, <1>3, <1>4, Zenon

(* A key that sends a pop only while two views are there leaves the stack  *)
(* fit for it.                                                             *)
LEMMA KeyPops ==
    ASSUME TypeOK, IsABag(flight), Core, NEW msgs, msgs \subseteq Messages, Key(msgs),
           UNCHANGED stack, Pop \in msgs => Len(stack) # 1,
           \A m \in msgs : m.kind = "reload" => Pop \notin msgs,
           \A m \in msgs : m.kind # "reloaded"
    PROVE  Grounded' /\ PopsFit'
<1>1. Grounded'
  BY KeyRushed DEF Core, Grounded
<1>2. ended' # "underflow"
  BY KeyRushed
<1>3. ASSUME "pop" \notin rushed', Pop \in Sent'
      PROVE  Len(stack) >= 2 /\ flight'[Pop] = 1 /\ ~UnderWay({"reload", "reloaded"})'
  <2>1. ~UnderWay({"pop", "reload", "reloaded"})
    BY <1>3, KeyRushed
  <2>2. Pop \notin Sent /\ Sent' = Sent \cup msgs
    BY <2>1, KeyAdds, Kinds DEF UnderWay, Sent
  <2>3. Pop \in msgs /\ flight'[Pop] = 1
    BY <1>3, <2>2, KeyAdds
  <2>4. ~UnderWay({"reload", "reloaded"})'
    BY <2>1, <2>2, <2>3 DEF UnderWay, Sent
  <2>5. stack \in Seq(Views) /\ stack # <<>>
    BY KeyRushed DEF Core, Grounded, TypeOK
  <2>6. Len(stack) \in Nat /\ Len(stack) # 0 /\ Len(stack) # 1
    BY <2>3, <2>5
  <2>7. Len(stack) >= 2
    <3>1. \A n \in Nat : n # 0 /\ n # 1 => n >= 2
      OBVIOUS
    <3> QED
      BY <2>6, <3>1, Zenon
  <2> QED
    BY <2>3, <2>4, <2>7, Zenon
<1>4. UNCHANGED Len(stack)
  OBVIOUS
<1> QED
  BY <1>1, <1>2, <1>3, <1>4 DEF PopsFit

(* A key that does not choose a file, or change one.                       *)
LEMMA QuietKey ==
    ASSUME TypeOK, IsABag(flight), Core, NEW msgs, msgs \subseteq Messages, Key(msgs),
           UNCHANGED <<db, ours, items, stack, copy, history>>,
           \A m \in msgs : m.kind \in {"quit", "pop", "push", "setkind", "feedback"},
           Push("options") \notin msgs, Pop \in msgs => Len(stack) # 1
    PROVE  Core'
<1>1. Grounded' /\ PopsFit'
  BY KeyPops
<1>2. Sent' = Sent \cup msgs
  BY KeyAdds
<1>4. LoadsChosen'
  BY <1>2, KeyRushed DEF Core, LoadsChosen, UnderWay, Sent, history
<1>5. ItemsFresh'
  BY <1>2, KeyRushed DEF Core, ItemsFresh, Fresh, Exists, UnderWay, Sent
<1>6. OptionsFit'
  <2>1. HasOptions' => HasOptions
    BY <1>2 DEF HasOptions
  <2>2. rushed' \cap {"push", "pop"} = {} =>
           rushed \cap {"push", "pop"} = {} /\ ~UnderWay({"reload", "reloaded"})'
    BY <1>2, KeyRushed DEF UnderWay, Sent
  <2>3. UnderWay({"reload", "reloaded", "quit"}) => UnderWay({"reload", "reloaded", "quit"})'
    BY <1>2 DEF UnderWay, Sent
  <2> QED
    BY <2>1, <2>2, <2>3, KeyRushed DEF Core, OptionsFit, history
<1> QED
  BY <1>1, <1>4, <1>5, <1>6 DEF Core

(* A file is chosen.  Unless a key crossed a reload, the list was fresh,   *)
(* so that the file is not one that this session has deleted.              *)
LEMMA ChooseCore ==
    ASSUME TypeOK, IsABag(flight), Core, DeletedByUs, NEW item \in items, NEW msgs,
           msgs \subseteq Messages, \A m \in msgs : m.kind \in {"push", "setkind"},
           Choose(item, msgs)
    PROVE  Core'
<1> DEFINE new == {Load(item.id)} \cup msgs
<1>1. item \in Item /\ item.id \in Files
  BY DEF TypeOK, Item
<1>2. /\ Key(new) /\ new \subseteq Messages /\ Pop \notin new
      /\ \A m \in new : m.kind \in {"load", "push", "setkind"}
      /\ UNCHANGED <<db, ours, items, stack, copy, asked>>
  BY <1>1, Kinds, MessageTypes DEF Choose, Plain, browsing, stored, windows
<1>3. chosen' = item.id /\ crossed' = (crossed \/ UnderWay({"load", "loaded"}))
  BY DEF Choose
<1>4. \A m \in new : m.kind = "load" => m.id = chosen'
  BY <1>3, Kinds
<1>5. \E m \in new : m.kind = "load"
  BY Kinds
<1> HIDE DEF new
<1>6. Sent' = Sent \cup new
  BY <1>2, KeyAdds
<1>7. Grounded' /\ PopsFit'
  BY <1>2, KeyPops
<1>9. LoadsChosen'
  BY <1>2, <1>3, <1>4, <1>5, <1>6, KeyRushed DEF Core, LoadsChosen, UnderWay, Sent
<1>10. ItemsFresh'
  BY <1>2, <1>6, KeyRushed DEF Core, ItemsFresh, Fresh, Exists, UnderWay, Sent
<1>11. OptionsFit'
  <2>1. rushed' \cap {"push", "pop"} = {} => /\ "pop" \notin rushed
                                             /\ ~UnderWay({"reload", "reloaded"})
                                             /\ ~UnderWay({"reload", "reloaded"})'
    BY <1>2, <1>6, KeyRushed DEF UnderWay, Sent
  <2>2. rushed' \cap {"push", "pop"} = {} => Fresh(items) \/ UnderWay({"quit"})
    BY <1>2, <2>1, KeyRushed DEF Core, ItemsFresh, UnderWay
  <2>3. Fresh(items) => db[item.id] # "deleted"
    BY <1>1 DEF Fresh, Exists, DeletedByUs
  <2>4. rushed' \cap {"push", "pop"} = {} =>
           db'[chosen'] # "deleted" \/ UnderWay({"reload", "reloaded", "quit"})'
    BY <1>2, <1>3, <1>6, <2>2, <2>3 DEF UnderWay, Sent
  <2> QED
    BY <1>1, <1>3, <2>1, <2>4 DEF OptionsFit
<1> QED
  BY <1>7, <1>9, <1>10, <1>11 DEF Core

(* An answer that changes files, on which the list is reloaded.            *)
LEMMA ChangeKey ==
    ASSUME TypeOK, IsABag(flight), Core, NEW msgs, msgs \subseteq Messages, Key(msgs),
           \A m \in msgs : m.kind \in {"reload", "feedback"},
           UNCHANGED <<items, stack, chosen, crossed>>, copy'.id = copy.id,
           Reload \in msgs \/ UNCHANGED <<db, ours>>
    PROVE  Core'
<1>1. Sent' = Sent \cup msgs
  BY KeyAdds
<1>2. Grounded' /\ PopsFit'
  <2>1. Pop \notin msgs
    BY Kinds
  <2> QED
    BY <2>1, KeyPops
<1>4. LoadsChosen'
  BY <1>1, KeyRushed DEF Core, LoadsChosen, UnderWay, Sent
<1>5. ItemsFresh'
  <2>1. "pop" \notin rushed' => ~UnderWay({"reloaded"})' /\ "pop" \notin rushed
    BY <1>1, KeyRushed DEF UnderWay, Sent
  <2>2. CASE Reload \in msgs
    <3>1. UnderWay({"reload", "reloaded", "quit"})'
      BY <1>1, <2>2, Kinds DEF UnderWay, Sent
    <3> QED
      BY <2>1, <3>1 DEF ItemsFresh, UnderWay, Sent
  <2>3. CASE UNCHANGED <<db, ours>>
    <3>1. "pop" \notin rushed' => Fresh(items) \/ UnderWay({"reload", "reloaded", "quit"})
      BY <2>1, KeyRushed DEF Core, ItemsFresh
    <3>2. UnderWay({"reload", "reloaded", "quit"}) => UnderWay({"reload", "reloaded", "quit"})'
      BY <1>1 DEF UnderWay, Sent
    <3>3. Fresh(items) => Fresh(items)'
      BY <2>3 DEF Fresh, Exists
    <3> QED
      BY <2>1, <3>1, <3>2, <3>3 DEF ItemsFresh, UnderWay, Sent
  <2> QED
    BY <2>2, <2>3
<1>6. OptionsFit'
  <2>1. HasOptions' => HasOptions
    BY <1>1, Kinds DEF HasOptions
  <2>2. rushed' \cap {"push", "pop"} = {} =>
           rushed \cap {"push", "pop"} = {} /\ ~UnderWay({"push"})'
    BY <1>1, KeyRushed DEF UnderWay, Sent
  <2>3. \/ UnderWay({"reload", "reloaded", "quit"})'
        \/ UNCHANGED db /\ ~UnderWay({"reload", "reloaded", "quit"})
    BY <1>1, Kinds DEF UnderWay, Sent
  <2> QED
    BY <2>1, <2>2, <2>3, KeyRushed DEF Core, OptionsFit
<1> QED
  BY <1>2, <1>4, <1>5, <1>6 DEF Core

-----------------------------------------------------------------------------
(* Handlers.  A message leaves, and at most others come.                   *)

(* A message that leaves stack, database, list and choice alone, and is    *)
(* neither a load nor a reload.                                            *)
LEMMA QuietHandle ==
    ASSUME IsABag(flight), Core, NEW m, BagIn(m, flight), Become(m, {}),
           m.kind \in {"deselect", "setkind", "feedback"},
           UNCHANGED <<db, ours, items, stack, copy, history, rushed, ended>>
    PROVE  Core'
<1>1. Sent' \subseteq Sent /\ Sent \ {m} \subseteq Sent'
  BY BecomeTakes
<1>2. Pop # m /\ (Pop \in Sent => flight'[Pop] = flight[Pop])
  BY BecomeTakes, Kinds
<1>3. Grounded' /\ PopsFit'
  BY <1>1, <1>2 DEF Core, Grounded, PopsFit, UnderWay, Sent
<1>5. LoadsChosen'
  BY <1>1 DEF Core, LoadsChosen, UnderWay, Sent, history
<1>6. ItemsFresh'
  BY <1>1 DEF Core, ItemsFresh, Fresh, Exists, UnderWay, Sent
<1>7. OptionsFit'
  <2>1. HasOptions' => HasOptions
    BY <1>1 DEF HasOptions
  <2> QED
    BY <1>1, <2>1 DEF Core, OptionsFit, UnderWay, Sent, history
<1> QED
  BY <1>3, <1>5, <1>6, <1>7 DEF Core

(* A file is read as it is.                                                *)
LEMMA LoadFileCore ==
    ASSUME IsABag(flight), Core, NEW f \in Files, LoadFile(f)
    PROVE  Core'
<1>1. PICK new : /\ BagIn(Load(f), flight) /\ Become(Load(f), new)
                 /\ \A m \in new : /\ m.kind \in {"loaded", "quit"}
                                   /\ m.kind = "loaded" =>
                                        m.file.id = f /\ (~m.file.private => db[f] = "public")
                 /\ \E m \in new : m.kind \in {"loaded", "quit"}
  <2>1. CASE Become(Load(f), {Quit})
    BY <2>1, Kinds DEF LoadFile
  <2>2. CASE /\ Exists(f)
             /\ Become(Load(f), {Loaded([id |-> f, private |-> db[f] = "private"])})
    <3> DEFINE file == [id |-> f, private |-> db[f] = "private"]
    <3>1. file.id = f /\ (~file.private => db[f] = "public")
      BY <2>2 DEF Exists
    <3>2. BagIn(Load(f), flight) /\ Become(Load(f), {Loaded(file)})
      BY <2>2 DEF LoadFile
    <3> HIDE DEF file
    <3>3. \A m \in {Loaded(file)} : m.kind = "loaded" /\ m.file = file
      BY Kinds
    <3> QED
      BY <3>1, <3>2, <3>3
  <2> QED
    BY <2>1, <2>2 DEF LoadFile
<1>2. /\ UNCHANGED <<db, ours, items, stack, copy, chosen, crossed, asked, rushed, ended>>
      /\ ended = "no"
  BY DEF LoadFile, Running, browsing, stored, windows, history
<1>3. /\ Sent' \subseteq Sent \cup new /\ Sent \ {Load(f)} \subseteq Sent' /\ new \subseteq Sent'
      /\ Load(f) \in Sent
  BY <1>1, BecomeTakes
<1>4. /\ Pop # Load(f) /\ Pop \notin new /\ Push("options") \notin new
      /\ Load(f).kind = "load" /\ Load(f).id = f
  BY <1>1, Kinds
<1>5. Pop \in Sent => flight'[Pop] = flight[Pop]
  BY <1>1, <1>4, BecomeTakes
<1>6. Grounded' /\ PopsFit'
  <2>1. Pop \in Sent' => Pop \in Sent
    BY <1>3, <1>4
  <2>2. UnderWay({"reload", "reloaded"})' => UnderWay({"reload", "reloaded"})
    BY <1>1, <1>3 DEF UnderWay, Sent
  <2> QED
    BY <1>2, <1>5, <2>1, <2>2 DEF Core, Grounded, PopsFit
<1>8. LoadsChosen'
  BY <1>1, <1>2, <1>3, <1>4 DEF Core, LoadsChosen, UnderWay, Sent
<1>9. ItemsFresh'
  BY <1>1, <1>2, <1>3, <1>4 DEF Core, ItemsFresh, Fresh, Exists, UnderWay, Sent
<1>10. OptionsFit'
  <2>1. HasOptions' => HasOptions
    BY <1>2, <1>3, <1>4 DEF HasOptions
  <2>2. UnderWay({"reload", "reloaded"})' => UnderWay({"reload", "reloaded"})
    BY <1>1, <1>3 DEF UnderWay, Sent
  <2>3. UnderWay({"push"})' => UnderWay({"push"})
    BY <1>1, <1>3 DEF UnderWay, Sent
  <2>4. UnderWay({"reload", "reloaded", "quit"}) => UnderWay({"reload", "reloaded", "quit"})'
    BY <1>3, <1>4 DEF UnderWay, Sent
  <2> QED
    BY <1>2, <2>1, <2>2, <2>3, <2>4 DEF Core, OptionsFit
<1> QED
  BY <1>6, <1>8, <1>9, <1>10 DEF Core

(* What FindByUser finds is what there is.                                 *)
LEMMA FoundIs ==
    \A i \in Item : i \in Found <=> Exists(i.id) /\ (i.private <=> db[i.id] = "private")
<1> TAKE i \in Item
<1>1. i.id \in Files /\ i.private \in BOOLEAN /\ i = [id |-> i.id, private |-> i.private]
  BY DEF Item
<1>2. ASSUME i \in Found
      PROVE  Exists(i.id) /\ (i.private <=> db[i.id] = "private")
  <2>1. PICK f \in Files : Exists(f) /\ i = [id |-> f, private |-> db[f] = "private"]
    BY <1>2 DEF Found
  <2> QED
    BY <2>1
<1>3. ASSUME Exists(i.id), i.private <=> db[i.id] = "private"
      PROVE  i \in Found
  <2>1. i = [id |-> i.id, private |-> db[i.id] = "private"]
    BY <1>1, <1>3
  <2> QED
    BY <1>1, <1>3, <2>1 DEF Found
<1> QED
  BY <1>2, <1>3

LEMMA FoundFresh == Fresh(Found)
BY FoundIs DEF Fresh

LEMMA ReloadFilesCore ==
    ASSUME IsABag(flight), Core, ReloadFiles
    PROVE  Core'
<1>1. PICK new : /\ BagIn(Reload, flight) /\ Become(Reload, new)
                 /\ \A m \in new : /\ m.kind \in {"reloaded", "quit"}
                                   /\ m.kind = "reloaded" => Fresh(m.items)
                 /\ \E m \in new : m.kind \in {"reloaded", "quit"}
  <2>1. CASE Become(Reload, {Quit})
    BY <2>1, Kinds DEF ReloadFiles
  <2>2. CASE Become(Reload, {Reloaded(Found)})
    BY <2>2, Kinds, FoundFresh DEF ReloadFiles
  <2> QED
    BY <2>1, <2>2 DEF ReloadFiles
<1>2. /\ UNCHANGED <<db, ours, items, stack, copy, chosen, crossed, asked, rushed, ended>>
      /\ ended = "no"
  BY DEF ReloadFiles, Running, browsing, stored, windows, history
<1>3. /\ Sent' \subseteq Sent \cup new /\ Sent \ {Reload} \subseteq Sent' /\ new \subseteq Sent'
      /\ Reload \in Sent
  BY <1>1, BecomeTakes
<1>4. /\ Pop # Reload /\ Pop \notin new /\ Push("options") \notin new
      /\ Reload.kind = "reload"
  BY <1>1, Kinds
<1>5. Pop \in Sent => flight'[Pop] = flight[Pop]
  BY <1>1, <1>4, BecomeTakes
<1>6. UnderWay({"reload", "reloaded"}) /\ UnderWay({"reloaded", "quit"})'
  BY <1>1, <1>3, <1>4 DEF UnderWay, Sent
<1>7. Grounded' /\ PopsFit'
  BY <1>2, <1>3, <1>4, <1>5, <1>6 DEF Core, Grounded, PopsFit
<1>9. LoadsChosen'
  BY <1>1, <1>2, <1>3, <1>4 DEF Core, LoadsChosen, UnderWay, Sent
<1>10. ItemsFresh'
  <2>1. UnderWay({"reload", "reloaded", "quit"})'
    BY <1>6 DEF UnderWay
  <2>2. \A l : Fresh(l)' <=> Fresh(l)
    BY <1>2 DEF Fresh, Exists
  <2>3. ended' = "no" /\ "pop" \notin rushed' =>
            \A m \in Sent' : m.kind = "reloaded" => Fresh(m.items)
    BY <1>1, <1>2, <1>3 DEF Core, ItemsFresh
  <2> QED
    BY <2>1, <2>2, <2>3 DEF ItemsFresh
<1>11. OptionsFit'
  <2>1. HasOptions' => HasOptions
    BY <1>2, <1>3, <1>4 DEF HasOptions
  <2>2. UnderWay({"push"})' => UnderWay({"push"})
    BY <1>1, <1>3 DEF UnderWay, Sent
  <2>3. UnderWay({"reload", "reloaded", "quit"})'
    BY <1>6 DEF UnderWay
  <2> QED
    BY <1>2, <1>6, <2>1, <2>2, <2>3 DEF Core, OptionsFit
<1> QED
  BY <1>7, <1>9, <1>10, <1>11 DEF Core

(* A view more: a pop that was fit remains so.                             *)
LEMMA HandlePushCore ==
    ASSUME TypeOK, IsABag(flight), Core, NEW v \in Views, HandlePush(v)
    PROVE  Core'
<1>1. /\ UNCHANGED <<db, ours, items, copy, chosen, crossed, asked, rushed, ended>>
      /\ stack' = Append(stack, v) /\ ended = "no"
      /\ BagIn(Push(v), flight) /\ Become(Push(v), {})
  BY DEF HandlePush, Running, stored, history
<1>2. /\ Sent' \subseteq Sent /\ Sent \ {Push(v)} \subseteq Sent'
      /\ Push(v) \in Sent
  BY <1>1, BecomeTakes
<1>3. Pop # Push(v) /\ Push(v).kind = "push"
  BY Kinds
<1>4. Pop \in Sent => flight'[Pop] = flight[Pop]
  BY <1>1, <1>3, BecomeTakes
<1>5. stack \in Seq(Views) /\ stack # <<>> /\ stack[1] = "browser"
  BY <1>1 DEF Core, Grounded, TypeOK
<1>6. /\ stack' # <<>> /\ stack'[1] = "browser"
      /\ Len(stack) >= 2 => Len(stack') >= 2
      /\ \A n \in 1..Len(stack') : stack'[n] = v \/ (n \in 1..Len(stack) /\ stack'[n] = stack[n])
  BY <1>1, <1>5
<1>7. Grounded' /\ PopsFit'
  <2>1. UnderWay({"reload", "reloaded"})' => UnderWay({"reload", "reloaded"})
    BY <1>2 DEF UnderWay, Sent
  <2> QED
    BY <1>1, <1>2, <1>4, <1>6, <2>1 DEF Core, Grounded, PopsFit
<1>9. LoadsChosen'
  BY <1>1, <1>2, <1>3 DEF Core, LoadsChosen, UnderWay, Sent
<1>10. ItemsFresh'
  BY <1>1, <1>2, <1>3 DEF Core, ItemsFresh, Fresh, Exists, UnderWay, Sent
<1>11. OptionsFit'
  <2>1. HasOptions' => HasOptions
    BY <1>2, <1>6 DEF HasOptions
  <2>2. /\ UnderWay({"reload", "reloaded"})' => UnderWay({"reload", "reloaded"})
        /\ UnderWay({"push"})' => UnderWay({"push"})
    BY <1>2 DEF UnderWay, Sent
  <2>3. UnderWay({"reload", "reloaded", "quit"}) => UnderWay({"reload", "reloaded", "quit"})'
    BY <1>2, <1>3 DEF UnderWay, Sent
  <2> QED
    BY <1>1, <2>1, <2>2, <2>3 DEF Core, OptionsFit
<1> QED
  BY <1>7, <1>9, <1>10, <1>11 DEF Core

(* The program has ended, and nothing is under way.                        *)
LEMMA EndedCore ==
    ASSUME Core, flight' = EmptyBag, ended' # "no",
           ended' = "underflow" => "pop" \in rushed'
    PROVE  Core'
<1>1. Sent' = {}
  BY DEF Sent, BagToSet, EmptyBag, SetToBag
<1> QED
  BY <1>1 DEF Grounded, PopsFit, LoadsChosen, ItemsFresh, OptionsFit, Core

(* A pop takes the last view of the stack only if a key crossed it.        *)
LEMMA HandlePopCore ==
    ASSUME TypeOK, IsABag(flight), Core, HandlePop
    PROVE  Core'
<1>1. /\ UNCHANGED <<db, ours, items, copy, chosen, crossed, asked, rushed>>
      /\ stack' = Front(stack) /\ ended = "no" /\ BagIn(Pop, flight)
  BY DEF HandlePop, stored, history
<1>2. Pop \in Sent
  BY <1>1 DEF BagIn, Sent
<1>3. stack \in Seq(Views) /\ stack # <<>> /\ stack[1] = "browser"
  BY <1>1 DEF Core, Grounded, TypeOK
<1>4. CASE Len(stack) = 1
  <2>1. ended' = "underflow" /\ flight' = EmptyBag
    BY <1>4 DEF HandlePop
  <2>2. "pop" \in rushed
    BY <1>1, <1>2, <1>4 DEF Core, PopsFit
  <2> QED
    BY <1>1, <2>1, <2>2, EndedCore
<1>5. CASE Len(stack) # 1
  <2>1. PICK new \in SUBSET {Deselect} : Become(Pop, new)
    BY <1>5 DEF HandlePop
  <2>2. UNCHANGED ended
    BY <1>5 DEF HandlePop
  <2>3. /\ Pop.kind = "pop" /\ Pop \notin new /\ Push("options") \notin new
        /\ \A m \in new : m.kind = "deselect"
    BY <2>1, Kinds
  <2>4. /\ Sent' \subseteq Sent \cup new /\ Sent \ {Pop} \subseteq Sent'
        /\ flight[Pop] = 1 => Pop \notin Sent'
    BY <1>1, <2>1, <2>3, BecomeTakes
  <2>5. /\ stack' # <<>> /\ stack'[1] = "browser"
        /\ \A n \in 1..Len(stack') : n \in 1..Len(stack) /\ stack'[n] = stack[n]
    BY <1>1, <1>3, <1>5, FrontParts
  <2>6. Grounded' /\ PopsFit'
    BY <1>1, <1>2, <2>2, <2>4, <2>5 DEF Core, Grounded, PopsFit
    <2>8. LoadsChosen'
    BY <1>1, <2>2, <2>3, <2>4 DEF Core, LoadsChosen, UnderWay, Sent
  <2>9. ItemsFresh'
    BY <1>1, <2>2, <2>3, <2>4 DEF Core, ItemsFresh, Fresh, Exists, UnderWay, Sent
  <2>10. OptionsFit'
    <3>1. HasOptions' => HasOptions
      BY <2>3, <2>4, <2>5 DEF HasOptions
    <3>2. /\ UnderWay({"reload", "reloaded"})' => UnderWay({"reload", "reloaded"})
          /\ UnderWay({"push"})' => UnderWay({"push"})
      BY <2>3, <2>4 DEF UnderWay, Sent
    <3>3. UnderWay({"reload", "reloaded", "quit"}) => UnderWay({"reload", "reloaded", "quit"})'
      BY <2>3, <2>4 DEF UnderWay, Sent
    <3> QED
      BY <1>1, <2>2, <3>1, <3>2, <3>3 DEF Core, OptionsFit
  <2> QED
    BY <2>6, <2>8, <2>9, <2>10 DEF Core
<1> QED
  BY <1>4, <1>5

(* Unless loads cross, it is the file chosen last that arrives.            *)
LEMMA HandleLoadedCore ==
    ASSUME IsABag(flight), Core, NEW item \in Item, HandleLoaded(item)
    PROVE  Core'
<1>1. /\ UNCHANGED <<db, ours, items, stack, chosen, crossed, asked, rushed, ended>>
      /\ copy' = item /\ ended = "no"
      /\ BagIn(Loaded(item), flight) /\ Become(Loaded(item), {})
  BY DEF HandleLoaded, Running, stored, history
<1>2. /\ Sent' \subseteq Sent /\ Sent \ {Loaded(item)} \subseteq Sent'
      /\ Loaded(item) \in Sent
  BY <1>1, BecomeTakes
<1>3. Pop # Loaded(item) /\ Loaded(item).kind = "loaded" /\ Loaded(item).file = item
  BY Kinds
<1>4. Pop \in Sent => flight'[Pop] = flight[Pop]
  BY <1>1, <1>3, BecomeTakes
<1>5. /\ UnderWay({"reload", "reloaded"})' => UnderWay({"reload", "reloaded"})
      /\ UnderWay({"push"})' => UnderWay({"push"})
      /\ UnderWay({"reload", "reloaded", "quit"}) => UnderWay({"reload", "reloaded", "quit"})'
  BY <1>2, <1>3 DEF UnderWay, Sent
<1>6. Grounded' /\ PopsFit'
  BY <1>1, <1>2, <1>4, <1>5 DEF Core, Grounded, PopsFit
<1>8. LoadsChosen'
  BY <1>1, <1>2, <1>3 DEF Core, LoadsChosen
<1>9. ItemsFresh'
  BY <1>1, <1>2, <1>5 DEF Core, ItemsFresh, Fresh, Exists
<1>10. OptionsFit'
  <2>1. HasOptions' => HasOptions
    BY <1>1, <1>2 DEF HasOptions
  <2> QED
    BY <1>1, <1>5, <2>1 DEF Core, OptionsFit
<1> QED
  BY <1>6, <1>8, <1>9, <1>10 DEF Core

(* The options window goes, and no push brings it back; the view that a    *)
(* pop will take was there without it.                                     *)
LEMMA HandleReloadedCore ==
    ASSUME TypeOK, IsABag(flight), Core, NEW files \in SUBSET Item, HandleReloaded(files)
    PROVE  Core'
<1>1. /\ UNCHANGED <<db, ours, copy, chosen, crossed, asked, rushed, ended>>
      /\ items' = files /\ stack' = Drop("options", stack) /\ ended = "no"
      /\ BagIn(Reloaded(files), flight) /\ Become(Reloaded(files), {})
  BY DEF HandleReloaded, Running, stored, history
<1>2. /\ Sent' \subseteq Sent /\ Sent \ {Reloaded(files)} \subseteq Sent'
      /\ Reloaded(files) \in Sent
  BY <1>1, BecomeTakes
<1>3. Reloaded(files).kind = "reloaded" /\ Reloaded(files).items = files
  BY Kinds
<1>4. UnderWay({"reload", "reloaded"}) /\ (UnderWay({"push"})' => UnderWay({"push"}))
  BY <1>2, <1>3 DEF UnderWay, Sent
<1>5. stack \in Seq(Views) /\ stack # <<>> /\ stack[1] = "browser"
  BY <1>1 DEF Core, Grounded, TypeOK
<1>6. /\ stack' # <<>> /\ stack'[1] = "browser"
      /\ \A n \in 1..Len(stack') : stack'[n] # "options"
  BY <1>1, <1>5, Dropped
<1>7. Grounded' /\ PopsFit'
  BY <1>1, <1>2, <1>4, <1>6 DEF Core, Grounded, PopsFit
<1>9. LoadsChosen'
  BY <1>1, <1>2, <1>3 DEF Core, LoadsChosen, UnderWay, Sent
<1>10. ItemsFresh'
  BY <1>1, <1>2, <1>3 DEF Core, ItemsFresh, Fresh, Exists
<1>11. OptionsFit'
  <2>1. HasOptions' => HasOptions /\ UnderWay({"push"})
    BY <1>2, <1>6, Kinds DEF HasOptions, UnderWay, Sent
  <2> QED
    BY <1>1, <1>4, <2>1 DEF Core, OptionsFit
<1> QED
  BY <1>7, <1>9, <1>10, <1>11 DEF Core

(* A file that others change is theirs until this session changes it.      *)
LEMMA ElsewhereCore ==
    ASSUME TypeOK, Core, NEW f \in Files, NEW new \in {"private", "public", "gone"},
           Elsewhere(f, new)
    PROVE  Core'
<1>1. /\ UNCHANGED <<items, stack, copy, chosen, crossed, asked, rushed, ended, flight>>
      /\ db' = [db EXCEPT ![f] = new] /\ ours' = ours \ {f}
  BY DEF Elsewhere, windows, history
<1>2. /\ db'[f] # "deleted" /\ f \notin ours'
      /\ \A g \in Files : g # f => db'[g] = db[g] /\ (g \in ours' => g \in ours)
  BY <1>1 DEF TypeOK
<1>3. Grounded' /\ PopsFit'
  BY <1>1 DEF Core, Grounded, PopsFit, UnderWay, Sent
<1>5. LoadsChosen'
  BY <1>1 DEF Core, LoadsChosen, UnderWay, Sent
<1>6. ItemsFresh'
  <2>1. \A list \in SUBSET Item : Fresh(list) => Fresh(list)'
    BY <1>2 DEF Fresh, Exists, Item
  <2>2. items \in SUBSET Item /\ \A m \in Sent : m.kind = "reloaded" => m.items \in SUBSET Item
    BY MessageParts DEF TypeOK, Sent
  <2>3. Sent' = Sent /\ \A kinds : UnderWay(kinds)' = UnderWay(kinds)
    BY <1>1 DEF Sent, UnderWay
  <2> QED
    BY <1>1, <2>1, <2>2, <2>3 DEF Core, ItemsFresh
<1>7. OptionsFit'
  <2>1. HasOptions' = HasOptions /\ \A kinds : UnderWay(kinds)' = UnderWay(kinds)
    BY <1>1 DEF HasOptions, Sent, UnderWay
  <2> QED
    BY <1>1, <1>2, <2>1 DEF Core, OptionsFit
<1> QED
  BY <1>3, <1>5, <1>6, <1>7 DEF Core

-----------------------------------------------------------------------------
(* The prompt, the cursor of the options, and the copies of files.         *)

(* A key of which no other was the first: what is about to open or to be   *)
(* set is its own.                                                         *)
LEMMA CareKey ==
    ASSUME IsABag(flight), Care, NEW msgs, msgs \subseteq Messages, Key(msgs),
           UNCHANGED <<stack, dialog>>,
           \A v \in Views : Push(v) \in msgs =>
               Top # "prompt" /\ \A w \in Views : Push(w) \in msgs => w = v,
           \A m \in msgs : m.kind # "loaded",
           Steady => /\ index' <= Len(Offered(copy'))
                     /\ dialog = "visibility" \/ SetKind("visibility") \in msgs => index' <= 4,
           "load" \notin rushed' => Consented(copy)',
           DeletedByUs'
    PROVE  Care'
<1>1. Sent' = Sent \cup msgs /\ \A e \in msgs : e \notin Sent => flight'[e] = 1
  BY KeyAdds
<1>2. Steady' => Steady /\ ~UnderWay({"push"}) /\ ~UnderWay({"setkind"})
  BY KeyRushed DEF Steady
<1>3. Steady' => /\ \A v \in Views : Push(v) \in Sent' => Push(v) \in msgs /\ Push(v) \notin Sent
                 /\ SetKind("visibility") \in Sent' => SetKind("visibility") \in msgs
  BY <1>1, <1>2, Kinds DEF UnderWay, Sent
<1>4. PromptFits'
  <2>1. Top' = Top
    BY DEF Top, Last
  <2>2. ASSUME Steady', NEW v \in Views, Push(v) \in Sent'
        PROVE  Top' # "prompt" /\ flight'[Push(v)] = 1 /\ \A w \in Views : Push(w) \in Sent' => w = v
    BY <1>1, <1>3, <2>1, <2>2
  <2>3. Steady' => /\ \A n \in 1..Len(stack') : stack'[n] = "prompt" => n = Len(stack')
                   /\ dialog' # "none" => Top' = "prompt"
    BY <1>2, <2>1 DEF Care, PromptFits
  <2> QED
    BY <2>2, <2>3 DEF PromptFits
<1>5. IndexFits'
  <2>1. ended' # "overrun"
    BY KeyRushed
  <2> QED
    BY <1>2, <1>3, <2>1 DEF IndexFits
<1>6. AllConsented'
  <2>1. "load" \notin rushed' => ~UnderWay({"load", "loaded"})
    BY KeyRushed
  <2>2. "load" \notin rushed' => \A m \in Sent' : m.kind # "loaded"
    BY <1>1, <2>1 DEF UnderWay, Sent
  <2> QED
    BY <2>2 DEF AllConsented
<1> QED
  BY <1>4, <1>5, <1>6 DEF Care

(* A handler of any message but the push, the pop and the reloaded list.   *)
LEMMA CareHandle ==
    ASSUME TypeOK, IsABag(flight), Care, NEW m, NEW new, BagIn(m, flight), Become(m, new),
           m.kind # "push",
           \A e \in new : e.kind \in {"loaded", "reloaded", "quit"},
           \A e \in new : e.kind = "loaded" => Consented(e.file),
           UNCHANGED <<db, ours, asked, stack, rushed, ended>>,
           dialog' = dialog \/ (Top = "prompt" /\ m = SetKind(dialog')),
           \/ UNCHANGED <<index, copy>>
           \/ index' = 1 /\ UNCHANGED copy
           \/ index' = 1 /\ m.kind = "loaded" /\ m.file = copy'
    PROVE  Care'
<1>1. /\ m \in Sent /\ Sent' \subseteq Sent \cup new
      /\ \A e \in Sent : e # m /\ e \notin new => flight'[e] = flight[e]
  BY BecomeTakes
<1>2. Steady' => Steady
  BY DEF Steady
<1>3. \A v \in Views : Push(v) \in Sent' =>
         Push(v) \in Sent /\ flight'[Push(v)] = flight[Push(v)]
  BY <1>1, Kinds
<1>4. SetKind("visibility") \in Sent' => SetKind("visibility") \in Sent
  BY <1>1, Kinds
<1>5. dialog' = "visibility" => dialog = "visibility" \/ SetKind("visibility") \in Sent
  BY <1>1
<1>6. PromptFits'
  <2>1. Top' = Top
    BY DEF Top, Last
  <2>2. ASSUME Steady', NEW v \in Views, Push(v) \in Sent'
        PROVE  Top' # "prompt" /\ flight'[Push(v)] = 1 /\ \A w \in Views : Push(w) \in Sent' => w = v
    BY <1>2, <1>3, <2>1, <2>2 DEF Care, PromptFits
  <2>3. Steady' => /\ \A n \in 1..Len(stack') : stack'[n] = "prompt" => n = Len(stack')
                   /\ dialog' # "none" => Top' = "prompt"
    BY <1>2, <2>1 DEF Care, PromptFits
  <2> QED
    BY <2>2, <2>3 DEF PromptFits
<1>7. IndexFits'
  <2>1. Len(Offered(copy')) \in {4, 5}
    BY DEF Offered
  <2>2. Steady => /\ index' <= Len(Offered(copy'))
                  /\ dialog = "visibility" \/ SetKind("visibility") \in Sent => index' <= 4
    <3>1. CASE UNCHANGED <<index, copy>>
      BY <3>1 DEF Care, IndexFits
    <3>2. CASE index' = 1
      BY <2>1, <3>2
    <3> QED
      BY <3>1, <3>2
  <2>3. ended' = "overrun" => ~(rushed' \cap {"push", "setkind"} = {})
    BY DEF Care, IndexFits
  <2> QED
    BY <1>2, <1>4, <1>5, <2>2, <2>3 DEF IndexFits
<1>8. AllConsented'
  <2>1. \A file : Consented(file)' <=> Consented(file)
    BY DEF Consented
  <2>2. ASSUME "load" \notin rushed
        PROVE  Consented(copy') /\ \A e \in Sent' : e.kind = "loaded" => Consented(e.file)
    BY <1>1, <2>2 DEF Care, AllConsented
  <2>3. Consented(copy') => Consented(copy)'
    BY DEF Consented
  <2> QED
    BY <2>1, <2>2, <2>3 DEF AllConsented
<1>9. DeletedByUs'
  BY DEF Care, DeletedByUs
<1> QED
  BY <1>6, <1>7, <1>8, <1>9 DEF Care

(* A message fewer or two, and the same files in the same hands.           *)
LEMMA CopiesKept ==
    ASSUME Care, UNCHANGED <<db, ours, asked, copy, rushed>>,
           \A m \in Sent' : m.kind = "loaded" => m \in Sent
    PROVE  AllConsented' /\ DeletedByUs'
BY DEF Care, AllConsented, Consented, DeletedByUs

(* The one window about to open is above all others.                       *)
LEMMA HandlePushCare ==
    ASSUME TypeOK, IsABag(flight), Core, Care, NEW v \in Views, HandlePush(v)
    PROVE  Care'
<1>1. /\ UNCHANGED <<db, ours, asked, copy, index, dialog, rushed, ended>>
      /\ stack' = Append(stack, v) /\ ended = "no"
      /\ BagIn(Push(v), flight) /\ Become(Push(v), {})
  BY DEF HandlePush, Running, stored, history
<1>2. /\ Sent' \subseteq Sent /\ Push(v) \in Sent
      /\ flight[Push(v)] = 1 => Push(v) \notin Sent'
  BY <1>1, BecomeTakes
<1>3. Steady' => Steady
  BY <1>1 DEF Steady
<1>4. PromptFits'
  <2>1. stack \in Seq(Views) /\ stack # <<>> /\ Top = stack[Len(stack)]
    BY <1>1 DEF Core, Grounded, TypeOK, Top, Last
  <2>2. Steady => /\ Top # "prompt" /\ dialog = "none"
                  /\ \A w \in Views : Push(w) \notin Sent'
                  /\ \A n \in 1..Len(stack) : stack[n] # "prompt"
    BY <1>2, <2>1 DEF Care, PromptFits
  <2>3. \A n \in 1..Len(stack') : n = Len(stack') \/ (n \in 1..Len(stack) /\ stack'[n] = stack[n])
    BY <1>1, <2>1
  <2> QED
    BY <1>1, <1>3, <2>2, <2>3 DEF PromptFits
<1>5. IndexFits'
  BY <1>1, <1>2, <1>3 DEF Care, IndexFits
<1>6. AllConsented' /\ DeletedByUs'
  BY <1>1, <1>2, CopiesKept
<1> QED
  BY <1>4, <1>5, <1>6 DEF Care

(* The program has ended.                                                  *)
LEMMA EndedCare ==
    ASSUME Care, flight' = EmptyBag, ended' # "no",
           ended' = "overrun" => ~(rushed \cap {"push", "setkind"} = {}),
           UNCHANGED <<db, ours, copy, asked, rushed>>
    PROVE  Care'
<1>1. Sent' = {}
  BY DEF Sent, BagToSet, EmptyBag, SetToBag
<1>2. PromptFits' /\ IndexFits'
  BY DEF PromptFits, IndexFits, Steady
<1>3. AllConsented' /\ DeletedByUs'
  BY <1>1, CopiesKept
<1> QED
  BY <1>2, <1>3 DEF Care

(* The view that goes was the only one to be a prompt.                     *)
LEMMA HandlePopCare ==
    ASSUME TypeOK, IsABag(flight), Core, Care, HandlePop
    PROVE  Care'
<1>1. /\ UNCHANGED <<db, ours, asked, copy, index, rushed>>
      /\ stack' = Front(stack) /\ dialog' = "none" /\ ended = "no" /\ BagIn(Pop, flight)
  BY DEF HandlePop, stored, history
<1>2. stack \in Seq(Views) /\ stack # <<>>
  BY <1>1 DEF Core, Grounded, TypeOK
<1>3. CASE Len(stack) = 1
  <2>1. ended' = "underflow" /\ flight' = EmptyBag
    BY <1>3 DEF HandlePop
  <2> QED
    BY <1>1, <2>1, EndedCare
<1>4. CASE Len(stack) # 1
  <2>1. PICK new \in SUBSET {Deselect} : Become(Pop, new)
    BY <1>4 DEF HandlePop
  <2>2. UNCHANGED ended
    BY <1>4 DEF HandlePop
  <2>3. Pop.kind = "pop" /\ \A m \in new : m.kind = "deselect"
    BY <2>1, Kinds
  <2>4. /\ Sent' \subseteq Sent \cup new
        /\ \A e \in Sent : e # Pop /\ e \notin new => flight'[e] = flight[e]
    BY <1>1, <2>1, BecomeTakes
  <2>5. /\ \A w \in Views : Push(w) \in Sent' => Push(w) \in Sent /\ flight'[Push(w)] = flight[Push(w)]
        /\ SetKind("visibility") \in Sent' => SetKind("visibility") \in Sent
        /\ \A m \in Sent' : m.kind = "loaded" => m \in Sent
    BY <2>3, <2>4, Kinds
  <2>6. Steady' => Steady
    BY <1>1, <2>2 DEF Steady
  <2>7. PromptFits'
    <3>1. /\ \A n \in 1..Len(stack') : n \in 1..Len(stack) /\ stack'[n] = stack[n] /\ n # Len(stack)
          /\ stack' # <<>> /\ stack' \in Seq(Views)
      <4>1. PICK n \in Nat : n = Len(stack) - 1
        BY <1>2
      <4>2. Len(stack') = n
        BY <1>1, <1>2, <4>1 DEF Front
      <4> QED
        BY <1>1, <1>2, <1>4, <4>1, <4>2, FrontParts
    <3>2. Top' = stack'[Len(stack')] /\ Len(stack') \in 1..Len(stack')
      BY <3>1 DEF Top, Last
    <3>3. Steady => \A n \in 1..Len(stack') : stack'[n] # "prompt"
      BY <3>1 DEF Care, PromptFits
    <3>4. Steady => Top' # "prompt"
      BY <3>2, <3>3
    <3>5. Steady => \A w \in Views : Push(w) \in Sent =>
             flight[Push(w)] = 1 /\ \A u \in Views : Push(u) \in Sent => u = w
      BY DEF Care, PromptFits
    <3> QED
      BY <1>1, <2>5, <2>6, <3>3, <3>4, <3>5 DEF PromptFits
  <2>8. IndexFits'
    BY <1>1, <2>2, <2>5, <2>6 DEF Care, IndexFits
  <2>9. AllConsented' /\ DeletedByUs'
    BY <1>1, <2>5, CopiesKept
  <2> QED
    BY <2>7, <2>8, <2>9 DEF Care
<1> QED
  BY <1>3, <1>4

(* Without the options windows a prompt on top is still there.             *)
LEMMA HandleReloadedCare ==
    ASSUME TypeOK, IsABag(flight), Core, Care, NEW files \in SUBSET Item, HandleReloaded(files)
    PROVE  Care'
<1>1. /\ UNCHANGED <<db, ours, asked, copy, index, dialog, rushed, ended>>
      /\ stack' = Drop("options", stack) /\ ended = "no"
      /\ BagIn(Reloaded(files), flight) /\ Become(Reloaded(files), {})
  BY DEF HandleReloaded, Running, stored, history
<1>2. /\ Sent' \subseteq Sent
      /\ \A e \in Sent : e # Reloaded(files) => flight'[e] = flight[e]
  BY <1>1, BecomeTakes
<1>3. \A w \in Views : Push(w) \in Sent' => Push(w) \in Sent /\ flight'[Push(w)] = flight[Push(w)]
  BY <1>2, Kinds
<1>4. Steady' => Steady
  BY <1>1 DEF Steady
<1>5. PromptFits'
  <2>1. stack \in Seq(Views) /\ stack # <<>> /\ Top = stack[Len(stack)] /\ Last(stack) = Top
    BY <1>1 DEF Core, Grounded, TypeOK, Top, Last
  <2>2. PICK k \in Seq(Views) :
           /\ \A i \in 1..Len(k) : \E j \in 1..(Len(stack) - 1) : k[i] = stack[j]
           /\ stack' = k \/ stack' = Append(k, Last(stack))
           /\ Last(stack) # "options" => stack' = Append(k, Last(stack))
    <3>1. \A view : \A views \in Seq(Views) : \E k \in Seq(Views) :
             /\ \A i \in 1..Len(k) : \E j \in 1..(Len(views) - 1) : k[i] = views[j]
             /\ Drop(view, views) = k \/ Drop(view, views) = Append(k, Last(views))
             /\ views # <<>> /\ Last(views) # view => Drop(view, views) = Append(k, Last(views))
      BY Dropped, Zenon
    <3>2. \E k \in Seq(Views) :
             /\ \A i \in 1..Len(k) : \E j \in 1..(Len(stack) - 1) : k[i] = stack[j]
             /\ Drop("options", stack) = k \/ Drop("options", stack) = Append(k, Last(stack))
             /\ stack # <<>> /\ Last(stack) # "options" =>
                   Drop("options", stack) = Append(k, Last(stack))
      BY <2>1, <3>1, Zenon
    <3> QED
      BY <1>1, <2>1, <3>2, Zenon
  <2>3. Steady => \A i \in 1..Len(k) : k[i] # "prompt"
    <3>1. \A j \in 1..(Len(stack) - 1) : j \in 1..Len(stack) /\ j # Len(stack)
      BY <2>1
    <3> QED
      BY <2>2, <3>1 DEF Care, PromptFits
  <2>4. stack' # <<>>
    <3>1. stack[1] = "browser"
      BY <1>1 DEF Core, Grounded
    <3> QED
      BY <1>1, <2>1, <3>1, Dropped
  <2>5. Top' = Last(stack')
    BY <2>4 DEF Top
  <2>6. Top \in Views
    BY <2>1
  <2>7. ASSUME Steady
        PROVE  /\ \A n \in 1..Len(stack') : stack'[n] = "prompt" => n = Len(stack')
               /\ Top = "prompt" => Top' = "prompt"
               /\ Top # "prompt" => Top' # "prompt"
    <3>1. CASE stack' = Append(k, Top)
      <4>1. Last(stack') = Top
        BY <2>6, <3>1 DEF Last
      <4>2. \A n \in 1..Len(stack') : n = Len(stack') \/ (n \in 1..Len(k) /\ stack'[n] = k[n])
        BY <2>6, <3>1
      <4> QED
        BY <2>3, <2>5, <2>7, <4>1, <4>2
    <3>2. CASE stack' = k /\ Top = "options"
      <4>1. Last(stack') = k[Len(k)] /\ Len(k) \in 1..Len(k)
        BY <2>4, <3>2 DEF Last
      <4> QED
        BY <2>3, <2>5, <2>7, <3>2, <4>1
    <3> QED
      BY <2>1, <2>2, <3>1, <3>2
  <2>8. Steady => /\ dialog # "none" => Top = "prompt"
                  /\ \A v \in Views : Push(v) \in Sent =>
                        /\ Top # "prompt" /\ flight[Push(v)] = 1
                        /\ \A w \in Views : Push(w) \in Sent => w = v
    BY DEF Care, PromptFits
  <2> QED
    BY <1>1, <1>3, <1>4, <2>7, <2>8 DEF PromptFits
<1>6. IndexFits'
  BY <1>1, <1>2, <1>4 DEF Care, IndexFits
<1>7. AllConsented' /\ DeletedByUs'
  BY <1>1, <1>2, CopiesKept
<1> QED
  BY <1>5, <1>6, <1>7 DEF Care

(* What others do to a file takes it out of this session's hands.          *)
LEMMA ElsewhereCare ==
    ASSUME TypeOK, Care, NEW f \in Files, NEW new \in {"private", "public", "gone"},
           Elsewhere(f, new)
    PROVE  Care'
<1>1. /\ UNCHANGED <<stack, copy, index, dialog, asked, rushed, ended, flight>>
      /\ db' = [db EXCEPT ![f] = new] /\ ours' = ours \ {f}
  BY DEF Elsewhere, windows, history
<1>2. Sent' = Sent /\ (Steady' <=> Steady) /\ Top' = Top
  BY <1>1 DEF Sent, Steady, Top, Last
<1>3. PromptFits'
  BY <1>1, <1>2 DEF Care, PromptFits
<1>4. IndexFits'
  BY <1>1, <1>2 DEF Care, IndexFits
<1>5. \A g \in Files : g # f => db'[g] = db[g] /\ (g \in ours' <=> g \in ours)
  BY <1>1 DEF TypeOK
<1>6. f \notin ours' /\ db'[f] # "deleted"
  BY <1>1 DEF TypeOK
<1>7. DeletedByUs'
  BY <1>5, <1>6 DEF Care, DeletedByUs
<1>8. AllConsented'
  <2>1. \A file : file.id \in Files /\ Consented(file) => Consented(file)'
    BY <1>1, <1>5, <1>6 DEF Consented
  <2>2. \A m \in Sent : m.kind = "loaded" => m.file.id \in Files
    BY MessageParts DEF TypeOK, Sent, Item
  <2>3. copy.id \in Files \/ copy.private
    BY DEF TypeOK, Item, NoCopy
  <2>4. "load" \notin rushed => Consented(copy)'
    BY <1>1, <1>5, <1>6, <2>3 DEF Care, AllConsented, Consented
  <2> QED
    BY <1>1, <1>2, <2>1, <2>2, <2>4 DEF Care, AllConsented
<1> QED
  BY <1>3, <1>4, <1>7, <1>8 DEF Care

-----------------------------------------------------------------------------
(* Types, in three groups: what is under way, the settings, the windows.   *)

FlightOK ==
    /\ IsABag(flight)
    /\ Sent \subseteq Messages
    /\ ended \in {"no", "quit", "killed", "underflow", "overrun"}
    /\ hasty \in 0..MaxHasty /\ elsewhere \in 0..MaxElsewhere
    /\ rushed \subseteq {"push", "pop", "setkind", "load"}

PageOK == SettingsTypeOK /\ ArmedByX /\ pressed \in Ids \cup {0}

WindowsOK ==
    /\ db \in [Files -> {"none", "private", "public", "deleted", "gone"}]
    /\ items \subseteq Item
    /\ stack \in Seq(Views)
    /\ copy \in Item \cup {NoCopy}
    /\ dialog \in Dialogs \cup {"none"}
    /\ shown \in BOOLEAN /\ finished \in BOOLEAN /\ index \in 1..5
    /\ chosen \in Files \cup {NoFile}
    /\ crossed \in BOOLEAN
    /\ asked \subseteq Files /\ ours \subseteq Files

LEMMA TypeParts ==
    /\ TInv <=> FlightOK /\ PageOK /\ WindowsOK /\ Core /\ Care
    /\ TInv' <=> (FlightOK /\ PageOK /\ WindowsOK /\ Core /\ Care)'
<1>1. TInv <=> FlightOK /\ PageOK /\ WindowsOK /\ Core /\ Care
  BY DEF TInv, TypeOK, FlightOK, PageOK, WindowsOK, Sent
<1>2. TInv' <=> (FlightOK /\ PageOK /\ WindowsOK /\ Core /\ Care)'
  BY DEF TInv, TypeOK, FlightOK, PageOK, WindowsOK, Sent
<1> QED
  BY <1>1, <1>2

LEMMA KeyType ==
    ASSUME FlightOK, NEW msgs, msgs \subseteq Messages, Key(msgs)
    PROVE  FlightOK'
<1>1. IsABag(flight)' /\ Sent' = Sent \cup msgs
  BY KeyAdds DEF FlightOK
<1>2. hasty' \in 0..MaxHasty
  <2>1. hasty' \in Nat /\ hasty' <= MaxHasty
    BY DEF Key, FlightOK
  <2> QED
    BY <2>1, MaxFlightAssumption
<1>3. /\ rushed' \subseteq {"push", "pop", "setkind", "load"} /\ ended' = ended
      /\ elsewhere' = elsewhere
  BY DEF Key, FlightOK
<1> QED
  BY <1>1, <1>2, <1>3 DEF FlightOK

LEMMA HandlerType ==
    ASSUME FlightOK, NEW m, NEW new, new \subseteq Messages,
           BagIn(m, flight), Become(m, new), UNCHANGED <<ended, hasty, elsewhere, rushed>>
    PROVE  FlightOK'
<1>1. IsABag(flight)' /\ Sent' \subseteq Sent \cup new
  BY BecomeTakes DEF FlightOK
<1> QED
  BY <1>1 DEF FlightOK

LEMMA EndType ==
    ASSUME FlightOK, flight' = EmptyBag, ended' \in {"quit", "killed", "underflow", "overrun"},
           UNCHANGED <<hasty, elsewhere, rushed>>
    PROVE  FlightOK'
<1>1. flight' = [e \in {} |-> 1] /\ Sent' = {}
  BY DEF EmptyBag, SetToBag, Sent, BagToSet
<1>2. IsABag(flight)'
  BY <1>1 DEF IsABag
<1> QED
  BY <1>1, <1>2 DEF FlightOK

-----------------------------------------------------------------------------
(* The settings. *)

LEMMA FewIds ==
    ASSUME NEW found, found \subseteq Ids
    PROVE  /\ IsFiniteSet(found) /\ Cardinality(found) \in Nat
           /\ Cardinality(found) = 0 <=> found = {}
           /\ found \subseteq Nat \ {0}
<1>1. IsFiniteSet(found)
  BY IdsAssumption, FS_Subset
<1> QED
  BY <1>1, IdsAssumption, FS_CardinalityType, FS_EmptySet

(* A list and a cursor that is within it.                                  *)
LEMMA ReloadKeysFits ==
    ASSUME NEW found, found \subseteq Ids, NEW at, at \in Nat \ {0}, ReloadKeys(found, at)
    PROVE  /\ rows' \subseteq Ids
           /\ cursor' \in 1..(IF rows' = {} THEN 1 ELSE Cardinality(rows'))
<1>1. rows' = found
  BY DEF ReloadKeys
<1>2. PICK c \in Nat : c = Cardinality(found) /\ (c = 0 <=> found = {})
  BY FewIds
<1>3. cursor' = IF at > c THEN (IF found = {} THEN 1 ELSE c) ELSE at
  BY <1>2 DEF ReloadKeys
<1>4. cursor' \in 1..(IF found = {} THEN 1 ELSE c)
  BY <1>2, <1>3
<1> QED
  BY <1>1, <1>2, <1>4

LEMMA CursorFits ==
    ASSUME SettingsTypeOK
    PROVE  /\ cursor \in Nat \ {0}
           /\ 1 \in 1..(IF rows = {} THEN 1 ELSE Cardinality(rows))
<1>1. PICK c \in Nat : c = Cardinality(rows) /\ (c = 0 <=> rows = {})
  BY FewIds DEF SettingsTypeOK
<1>2. cursor \in 1..(IF rows = {} THEN 1 ELSE c)
  BY <1>1 DEF SettingsTypeOK
<1>3. cursor \in Nat \ {0} /\ 1 \in 1..(IF rows = {} THEN 1 ELSE c)
  BY <1>1, <1>2
<1> QED
  BY <1>1, <1>3

LEMMA ReloadOrNotFits ==
    ASSUME SettingsTypeOK, NEW found, found \subseteq Ids, ReloadOrNot(found)
    PROVE  /\ rows' \subseteq Ids
           /\ cursor' \in 1..(IF rows' = {} THEN 1 ELSE Cardinality(rows'))
<1>1. CASE ReloadKeys(found, cursor)
  BY <1>1, CursorFits, ReloadKeysFits
<1>2. CASE UNCHANGED <<rows, cursor>>
  BY <1>2 DEF SettingsTypeOK
<1> QED
  BY <1>1, <1>2 DEF ReloadOrNot

LEMMA PageKept ==
    ASSUME PageOK, UNCHANGED <<settingsVars, pressed>>
    PROVE  PageOK' /\ keys' = keys
BY DEF PageOK, SettingsTypeOK, ArmedByX, settingsVars, apiKeysVars

(* A window left, or opened again, shows the root.                         *)
LEMMA PageRoot ==
    ASSUME PageOK, page' = "root", UNCHANGED apiKeysVars, pressed' \in Ids \cup {0}
    PROVE  PageOK' /\ keys' = keys
BY DEF PageOK, SettingsTypeOK, ArmedByX, apiKeysVars, Pages

(* A key other than x that the settings see arms nothing, and deletes no   *)
(* key.                                                                    *)
LEMMA OnPage ==
    ASSUME PageOK, pressed' = 0,
           \/ Open \/ SaveTheme \/ LeavePage
           \/ Move \/ StartNaming \/ EnterName \/ Create \/ StopCreating \/ Disarm
    PROVE  PageOK' /\ keys \subseteq keys'
<1>1. CASE page = "root" /\ (OpenTheme \/ OpenDelete)
  <2>1. page' \in Pages \ {"apikeys"} /\ UNCHANGED apiKeysVars
    BY <1>1 DEF OpenTheme, OpenDelete, Pages
  <2> QED
    BY <2>1 DEF PageOK, SettingsTypeOK, ArmedByX, apiKeysVars
<1>2. CASE OpenApiKeys
  <2>1. /\ rows' \subseteq Ids
        /\ cursor' \in 1..(IF rows' = {} THEN 1 ELSE Cardinality(rows'))
    <3>1. CASE ReloadKeys(keys, 1)
      BY <3>1, ReloadKeysFits DEF PageOK, SettingsTypeOK
    <3>2. CASE cursor' = 1 /\ UNCHANGED <<rows, page>>
      BY <3>2, CursorFits DEF PageOK, SettingsTypeOK
    <3> QED
      BY <1>2, <3>1, <3>2 DEF OpenApiKeys
  <2>2. page' \in Pages
    BY <1>2 DEF OpenApiKeys, Pages, PageOK, SettingsTypeOK
  <2>3. creating' = "no" /\ armed' = 0 /\ UNCHANGED <<keys, spare>>
    BY <1>2 DEF OpenApiKeys
  <2>4. SettingsTypeOK'
    BY <2>1, <2>2, <2>3 DEF PageOK, SettingsTypeOK
  <2> QED
    BY <2>3, <2>4 DEF PageOK, ArmedByX
<1>3. CASE SaveTheme
  BY <1>3, PageRoot DEF SaveTheme, Back
<1>4. CASE LeavePage
  BY <1>4 DEF LeavePage, PageOK, SettingsTypeOK, ArmedByX, Pages
<1>5. CASE Move
  <2>1. cursor' \in 1..(IF rows = {} THEN 1 ELSE Cardinality(rows))
    <3>1. PICK c \in Nat : c = Cardinality(rows) /\ (c = 0 <=> rows = {})
      BY FewIds DEF PageOK, SettingsTypeOK
    <3>2. cursor \in 1..(IF rows = {} THEN 1 ELSE c)
      BY <3>1 DEF PageOK, SettingsTypeOK
    <3>3. (cursor > 1 /\ cursor' = cursor - 1) \/ (cursor < c /\ cursor' = cursor + 1)
      BY <1>5, <3>1 DEF Move
    <3>4. cursor' \in 1..(IF rows = {} THEN 1 ELSE c)
      BY <3>1, <3>2, <3>3
    <3> QED
      BY <3>1, <3>4
  <2> QED
    BY <1>5, <2>1 DEF Move, AtList, PageOK, SettingsTypeOK, ArmedByX
<1>6. CASE StartNaming
  BY <1>6 DEF StartNaming, AtList, PageOK, SettingsTypeOK, ArmedByX
<1>7. CASE EnterName \/ StopCreating \/ Disarm
  BY <1>7 DEF EnterName, StopCreating, Disarm, AtList, PageOK, SettingsTypeOK, ArmedByX
<1>8. CASE Create
  <2> DEFINE id == CHOOSE k \in spare : \A l \in spare : k <= l
             self == [k \in spare |-> k]
  <2>1. spare # {} /\ spare \subseteq Ids
    BY <1>8 DEF Create, PageOK, SettingsTypeOK
  <2>2. IsFiniteSet(spare) /\ spare \subseteq Nat
    BY <2>1, FewIds
  <2>3. \E k \in spare : \A l \in spare : self[k] <= self[l]
    <3>1. Numbered(spare, self)
      BY <2>2 DEF Numbered
    <3> HIDE DEF self
    <3> QED
      BY <2>1, <2>2, <3>1, HasBottom
  <2>4. id \in spare
    BY <2>3
  <2> HIDE DEF id
  <2>5. keys' = keys \cup {id} /\ spare' = spare \ {id} /\ creating' = "no"
    BY <1>8 DEF Create, id
  <2>6. keys' \subseteq Ids /\ spare' \subseteq Ids
    BY <2>1, <2>4, <2>5 DEF PageOK, SettingsTypeOK
  <2>7. ReloadOrNot(keys') /\ UNCHANGED <<page, armed>> /\ page = "apikeys" /\ creating = "expiring"
    BY <1>8 DEF Create
  <2>8. /\ rows' \subseteq Ids
        /\ cursor' \in 1..(IF rows' = {} THEN 1 ELSE Cardinality(rows'))
    BY <2>6, <2>7, ReloadOrNotFits DEF PageOK
  <2> QED
    BY <2>5, <2>6, <2>7, <2>8 DEF PageOK, SettingsTypeOK, ArmedByX
<1> QED
  BY <1>1, <1>2, <1>3, <1>4, <1>5, <1>6, <1>7, <1>8 DEF Open

(* An x arms the selected key, or deletes it if it is armed: then it is    *)
(* the key of the x before.                                                *)
LEMMA OnX ==
    ASSUME PageOK, Arm \/ DeleteKey, pressed' = Selected
    PROVE  PageOK' /\ \A k \in keys \ keys' : pressed = k
<1>1. rows # {} /\ page = "apikeys" /\ creating = "no"
  BY DEF Arm, DeleteKey, AtList
<1>2. Selected \in Ids
  BY <1>1, SelectedListed DEF PageOK, SettingsTypeOK
<1>3. CASE Arm
  <2>1. armed' = Selected /\ UNCHANGED <<page, keys, spare, rows, cursor, creating>>
    BY <1>3 DEF Arm
  <2>2. SettingsTypeOK'
    BY <1>2, <2>1 DEF PageOK, SettingsTypeOK
  <2> QED
    BY <1>1, <1>2, <2>1, <2>2 DEF PageOK, ArmedByX
<1>4. CASE DeleteKey
  <2>1. armed = Selected /\ armed # 0 /\ pressed = armed
    BY <1>1, <1>2, <1>4, FewIds DEF DeleteKey, PageOK, ArmedByX
  <2>2. CASE armed \in keys /\ keys' = keys \ {armed} /\ armed' = 0 /\ ReloadOrNot(keys')
    <3>1. keys' \subseteq Ids
      BY <2>2 DEF PageOK, SettingsTypeOK
    <3>2. /\ rows' \subseteq Ids
          /\ cursor' \in 1..(IF rows' = {} THEN 1 ELSE Cardinality(rows'))
      BY <2>2, <3>1, ReloadOrNotFits DEF PageOK
    <3> QED
      BY <1>1, <1>2, <1>4, <2>1, <2>2, <3>1, <3>2 DEF DeleteKey, PageOK, SettingsTypeOK, ArmedByX
  <2>3. CASE UNCHANGED <<keys, armed, rows, cursor>>
    BY <1>1, <1>2, <1>4, <2>1, <2>3 DEF DeleteKey, PageOK, SettingsTypeOK, ArmedByX
  <2> QED
    BY <1>4, <2>2, <2>3 DEF DeleteKey
<1> QED
  BY <1>3, <1>4

-----------------------------------------------------------------------------
(* Every step keeps the invariant, and deletes no API key but on the       *)
(* second x.                                                               *)

OnSecondX == \A k \in keys \ keys' : pressed = k

LEMMA Typed ==
    ASSUME TInv
    PROVE  TypeOK /\ IsABag(flight) /\ FlightOK /\ PageOK /\ WindowsOK /\ Core /\ Care
BY TypeParts DEF TInv

LEMMA OneViewIsBrowser ==
    ASSUME TInv, ended = "no", Len(stack) = 1
    PROVE  Top = "browser"
BY DEF TInv, TypeOK, Core, Grounded, Top, Last

(* Away from the settings a key leaves them as they are.                   *)
LEMMA PlainPage ==
    ASSUME TInv, NEW msgs, Plain(msgs), Top # "settings" \/ page = "root",
           UNCHANGED settingsVars
    PROVE  PageOK' /\ keys' = keys
<1>1. CASE Top = "settings"
  <2>1. pressed' = 0 /\ page' = "root" /\ UNCHANGED apiKeysVars
    BY <1>1 DEF Plain, settingsVars
  <2> QED
    BY <2>1, Typed, PageRoot
<1>2. CASE Top # "settings"
  <2>1. UNCHANGED pressed
    BY <1>2 DEF Plain
  <2> QED
    BY <2>1, Typed, PageKept
<1> QED
  BY <1>1, <1>2

(* A key that changes no more of the windows than the cursor's place.      *)
LEMMA QuietKeyStep ==
    ASSUME TInv, NEW msgs, msgs \subseteq Messages, Key(msgs), PageOK',
           UNCHANGED <<db, ours, items, stack, copy, shown, dialog, finished, history>>,
           \A m \in msgs : m.kind \in {"quit", "pop", "push", "setkind", "feedback"},
           Push("options") \notin msgs, Pop \in msgs => Len(stack) # 1,
           \A v \in Views : Push(v) \in msgs =>
               Top # "prompt" /\ \A w \in Views : Push(w) \in msgs => w = v,
           index' \in 1..5,
           Steady => /\ index' <= Len(Offered(copy))
                     /\ dialog = "visibility" \/ SetKind("visibility") \in msgs => index' <= 4
    PROVE  TInv'
<1>1. Core'
  BY Typed, QuietKey
<1>2. FlightOK'
  BY Typed, KeyType
<1>3. WindowsOK'
  BY Typed DEF WindowsOK, history
<1>4. Care'
  <2>1. "load" \notin rushed' => Consented(copy)'
    BY Typed, KeyRushed DEF Care, AllConsented, Consented, history
  <2>2. DeletedByUs'
    BY Typed DEF Care, DeletedByUs
  <2> QED
    BY <2>1, <2>2, Typed, CareKey
<1> QED
  BY <1>1, <1>2, <1>3, <1>4, TypeParts

(* One that changes nothing of them.                                       *)
LEMMA SameKeyStep ==
    ASSUME TInv, NEW msgs, msgs \subseteq Messages, Key(msgs), PageOK',
           UNCHANGED <<browsing, history>>,
           \A m \in msgs : m.kind \in {"quit", "pop", "push", "setkind", "feedback"},
           Push("options") \notin msgs, Pop \in msgs => Len(stack) # 1,
           \A v \in Views : Push(v) \in msgs =>
               Top # "prompt" /\ \A w \in Views : Push(w) \in msgs => w = v,
           Steady /\ SetKind("visibility") \in msgs => index <= 4
    PROVE  TInv'
<1>1. UNCHANGED <<db, ours, items, stack, copy, shown, dialog, finished, history, index>>
  BY DEF browsing, stored, windows
<1>2. index' \in 1..5
  BY <1>1, Typed DEF WindowsOK
<1>3. Steady => /\ index' <= Len(Offered(copy))
                /\ dialog = "visibility" \/ SetKind("visibility") \in msgs => index' <= 4
  BY <1>1, Typed DEF Care, IndexFits
<1> QED
  BY <1>1, <1>2, <1>3, QuietKeyStep

LEMMA PressQuitStep ==
    ASSUME TInv, PressQuit
    PROVE  TInv' /\ OnSecondX
<1>1. Key({Quit}) /\ UNCHANGED <<browsing, history>>
  BY DEF PressQuit
<1>2. PageOK' /\ keys \subseteq keys'
  <2>1. CASE UNCHANGED <<settingsVars, pressed>>
    BY <2>1, Typed, PageKept
  <2>2. CASE Disarm /\ pressed' = 0
    BY <2>2, Typed, OnPage
  <2> QED
    BY <2>1, <2>2 DEF PressQuit
<1>3. \A m \in {Quit} : m \in Messages /\ m.kind = "quit"
  BY Kinds, MessageTypes
<1>4. /\ Pop \notin {Quit} /\ SetKind("visibility") \notin {Quit}
      /\ \A v : Push(v) \notin {Quit}
  BY <1>3, Kinds
<1>5. TInv'
  BY <1>1, <1>2, <1>3, <1>4, SameKeyStep
<1> QED
  BY <1>2, <1>5 DEF OnSecondX

LEMMA PressSettingsStep ==
    ASSUME TInv, PressSettings
    PROVE  TInv' /\ OnSecondX
<1>1. PICK m : /\ m = IF Top = "settings" THEN Pop ELSE Push("settings")
               /\ Key({m}) /\ UNCHANGED <<browsing, history, settingsVars, pressed>>
               /\ Top # "prompt"
  BY DEF PressSettings
<1>2. PageOK' /\ keys' = keys
  BY <1>1, Typed, PageKept
<1>3. m \in Messages /\ m.kind \in {"pop", "push"}
  BY <1>1, Kinds, MessageTypes DEF Views
<1>4. m # Push("options")
  BY <1>1, Kinds
<1>5. m = Pop => Len(stack) # 1
  <2>1. m = Pop => Top = "settings"
    BY <1>1, Kinds
  <2> QED
    BY <1>1, <2>1, KeyRushed, OneViewIsBrowser
<1>6. /\ m # SetKind("visibility")
      /\ \A v, w \in Views : m = Push(v) /\ m = Push(w) => w = v
  BY <1>3, Kinds
<1>7. TInv'
  BY <1>1, <1>2, <1>3, <1>4, <1>5, <1>6, SameKeyStep
<1> QED
  BY <1>2, <1>7 DEF OnSecondX

LEMMA PressBackStep ==
    ASSUME TInv, PressBack
    PROVE  TInv' /\ OnSecondX
<1>1. PICK m : /\ m = IF Len(stack) = 1 THEN Quit ELSE Pop
               /\ Plain({m}) /\ UNCHANGED <<browsing, history, settingsVars>>
  BY DEF PressBack
<1>2. PageOK' /\ keys' = keys
  BY <1>1, PlainPage DEF PressBack
<1>3. /\ m \in Messages /\ m.kind \in {"pop", "quit"} /\ m # SetKind("visibility")
      /\ \A v : m # Push(v)
  BY <1>1, Kinds, MessageTypes
<1>4. m = Pop => Len(stack) # 1
  BY <1>1, Kinds
<1>5. Key({m})
  BY <1>1 DEF Plain
<1>6. TInv'
  BY <1>1, <1>2, <1>3, <1>4, <1>5, SameKeyStep
<1> QED
  BY <1>2, <1>6 DEF OnSecondX

(* Keys of the other windows that change nothing but what is under way.    *)
LEMMA AwayStep ==
    ASSUME TInv, NEW msgs, msgs \subseteq Messages, Plain(msgs), Top # "settings",
           UNCHANGED <<settingsVars, browsing, history>>,
           \A m \in msgs : m.kind \in {"quit", "pop", "push", "setkind", "feedback"},
           Push("options") \notin msgs, Pop \in msgs => Top # "browser",
           \A v \in Views : Push(v) \in msgs =>
               Top # "prompt" /\ \A w \in Views : Push(w) \in msgs => w = v,
           Steady /\ SetKind("visibility") \in msgs => index <= 4
    PROVE  TInv' /\ OnSecondX
<1>1. PageOK' /\ keys' = keys
  BY PlainPage
<1>2. Key(msgs)
  BY DEF Plain
<1>3. Pop \in msgs => Len(stack) # 1
  BY <1>2, KeyRushed, OneViewIsBrowser
<1>4. TInv'
  BY <1>1, <1>2, <1>3, SameKeyStep
<1> QED
  BY <1>1, <1>4 DEF OnSecondX

(* The cursor stays on an option.                                          *)
LEMMA PressMoveStep ==
    ASSUME TInv, PressMove
    PROVE  TInv' /\ OnSecondX
<1> DEFINE msgs == {}
<1>1. /\ Plain(msgs) /\ Top = "options" /\ index' \in {index - 1, index + 1} /\ index' > 0
      /\ index' > index => index < Len(Offered(copy))
      /\ UNCHANGED <<settingsVars, db, ours, items, stack, copy, shown, dialog, finished, history>>
  BY DEF PressMove, InOptions, stored
<1>2. PICK n \in 4..5 : n = Len(Offered(copy))
  BY DEF Offered
<1>8. index \in 1..5
  BY Typed DEF WindowsOK
<1>3. index' \in 1..5
  BY <1>1, <1>2, <1>8
<1>4. Steady => index' <= Len(Offered(copy)) /\ dialog # "visibility"
  <2>1. Steady => index <= Len(Offered(copy)) /\ dialog # "visibility"
    BY <1>1, Typed DEF Care, PromptFits, IndexFits
  <2>2. index <= Len(Offered(copy)) => index' <= Len(Offered(copy))
    BY <1>1, <1>2, <1>8
  <2> QED
    BY <2>1, <2>2
<1>5. PageOK' /\ keys' = keys
  BY <1>1, PlainPage
<1>6. msgs \subseteq Messages /\ Key(msgs) /\ \A m : m \notin msgs
  BY <1>1 DEF Plain
<1> HIDE DEF msgs
<1>7. TInv'
  BY <1>1, <1>3, <1>4, <1>5, <1>6, QuietKeyStep
<1> QED
  BY <1>5, <1>7 DEF OnSecondX

(* The visibility is the fourth option, or the third.                      *)
LEMMA PressOptionStep ==
    ASSUME TInv, PressOption
    PROVE  TInv' /\ OnSecondX
<1>1. index \in 1..5 /\ index <= Len(Offered(copy))
  BY Typed DEF PressOption, WindowsOK
<1>2. PICK d : /\ d = Offered(copy)[index]
               /\ d \in Dialogs /\ (d = "visibility" => index <= 4)
  <2>1. CASE copy.private
    <3>1. Offered(copy) = <<"rename", "extension", "sign", "visibility", "delete">>
      BY <2>1 DEF Offered
    <3>2. /\ index \in {1, 2, 3, 4, 5}
          /\ index = 1 => Offered(copy)[index] = "rename"
          /\ index = 2 => Offered(copy)[index] = "extension"
          /\ index = 3 => Offered(copy)[index] = "sign"
          /\ index = 4 => Offered(copy)[index] = "visibility"
          /\ index = 5 => Offered(copy)[index] = "delete"
      BY <1>1, <3>1
    <3> QED
      BY <3>2 DEF Dialogs
  <2>2. CASE ~copy.private
    <3>1. Offered(copy) = <<"rename", "extension", "visibility", "delete">>
      BY <2>2 DEF Offered
    <3>2. /\ index \in {1, 2, 3, 4}
          /\ index = 1 => Offered(copy)[index] = "rename"
          /\ index = 2 => Offered(copy)[index] = "extension"
          /\ index = 3 => Offered(copy)[index] = "visibility"
          /\ index = 4 => Offered(copy)[index] = "delete"
      BY <1>1, <3>1
    <3> QED
      BY <3>2 DEF Dialogs
  <2> QED
    BY <2>1, <2>2
<1> DEFINE msgs == {SetKind(d), Push("prompt")}
<1>3. /\ Plain(msgs) /\ Top = "options" /\ UNCHANGED <<settingsVars, browsing, history>>
  BY <1>2 DEF PressOption, InOptions
<1>4. /\ \A m \in msgs : m \in Messages /\ m.kind \in {"push", "setkind"}
      /\ \A v : Push(v) \in msgs => v = "prompt"
      /\ SetKind("visibility") \in msgs => d = "visibility"
  BY <1>2, Kinds, MessageTypes DEF Views
<1>5. Pop \notin msgs /\ Push("options") \notin msgs
  BY <1>4, Kinds
<1> HIDE DEF msgs
<1> QED
  BY <1>2, <1>3, <1>4, <1>5, AwayStep

LEMMA RefuseStep ==
    ASSUME TInv, NEW done \in BOOLEAN, Plain({Feedback(done)}), Top = "prompt",
           UNCHANGED <<settingsVars, browsing, history>>
    PROVE  TInv' /\ OnSecondX
<1> DEFINE msgs == {Feedback(done)}
<1>1. \A m \in msgs : m \in Messages /\ m.kind = "feedback"
  BY Kinds, MessageTypes
<1>2. /\ Pop \notin msgs /\ SetKind("visibility") \notin msgs /\ Plain(msgs)
      /\ \A v : Push(v) \notin msgs
  BY <1>1, Kinds
<1> HIDE DEF msgs
<1> QED
  BY <1>1, <1>2, AwayStep

LEMMA OnPageStep ==
    ASSUME TInv, PressOnPage \/ PressX
    PROVE  TInv' /\ OnSecondX
<1>1. Key({}) /\ UNCHANGED <<browsing, history>>
  BY DEF PressOnPage, PressX, InSettings, Plain
<1>2. PageOK' /\ OnSecondX
  <2>1. CASE PressOnPage
    <3>1. pressed' = 0
      BY <2>1 DEF PressOnPage, InSettings, Plain
    <3>2. \/ Open \/ SaveTheme \/ LeavePage
          \/ Move \/ StartNaming \/ EnterName \/ Create \/ StopCreating \/ Disarm
      BY <2>1 DEF PressOnPage
    <3>3. PageOK' /\ keys \subseteq keys'
      BY <3>1, <3>2, Typed, OnPage
    <3> QED
      BY <3>3 DEF OnSecondX
  <2>2. CASE PressX
    BY <2>2, Typed, OnX DEF PressX, OnSecondX
  <2> QED
    BY <2>1, <2>2
<1> DEFINE msgs == {}
<1>3. msgs \subseteq Messages /\ Key(msgs) /\ \A m : m \notin msgs
  BY <1>1
<1> HIDE DEF msgs
<1> QED
  BY <1>1, <1>2, <1>3, SameKeyStep

LEMMA ChooseStep ==
    ASSUME TInv, NEW item \in items, NEW msgs, msgs \subseteq Messages,
           \A m \in msgs : m.kind \in {"push", "setkind"}, Choose(item, msgs),
           \A v, w \in Views : Push(v) \in msgs /\ Push(w) \in msgs => w = v,
           SetKind("visibility") \notin msgs
    PROVE  TInv' /\ OnSecondX
<1> DEFINE new == {Load(item.id)} \cup msgs
<1>1. item.id \in Files
  BY Typed DEF WindowsOK, Item
<1>2. new \subseteq Messages /\ Plain(new) /\ Top = "browser" /\ UNCHANGED settingsVars
  BY <1>1, MessageTypes DEF Choose
<1>7. /\ SetKind("visibility") \notin new
      /\ \A v \in Views : Push(v) \in new => Push(v) \in msgs
      /\ \A m \in new : m.kind # "loaded"
  BY Kinds
<1>8. UNCHANGED <<db, ours, items, stack, copy, shown, index, dialog, finished, asked>>
  BY DEF Choose, browsing, stored, windows
<1> HIDE DEF new
<1>3. PageOK' /\ keys' = keys
  BY <1>2, PlainPage
<1>4. FlightOK'
  BY <1>2, Typed, KeyType DEF Plain
<1>5. WindowsOK'
  BY <1>1, <1>8, Typed DEF Choose, WindowsOK, UnderWay
<1>6. Core'
  BY Typed, ChooseCore DEF Care
<1>9. Care'
  <2>1. Key(new)
    BY <1>2 DEF Plain
  <2>2. "load" \notin rushed' => Consented(copy)'
    BY <1>8, <2>1, Typed, KeyRushed DEF Care, AllConsented, Consented
  <2>3. DeletedByUs'
    BY <1>8, Typed DEF Care, DeletedByUs
  <2>4. Steady => /\ index' <= Len(Offered(copy'))
                  /\ dialog = "visibility" => index' <= 4
    BY <1>8, Typed DEF Care, IndexFits
  <2> QED
    BY <1>2, <1>7, <1>8, <2>1, <2>2, <2>3, <2>4, Typed, CareKey
<1> QED
  BY <1>3, <1>4, <1>5, <1>6, <1>9, TypeParts DEF OnSecondX

LEMMA BrowserStep ==
    ASSUME TInv, NEW item \in items,
           PressTab(item) \/ PressEnter(item) \/ PressDelete(item) \/ PressSign(item)
    PROVE  TInv' /\ OnSecondX
<1>1. PICK msgs : /\ Choose(item, msgs)
                  /\ \/ \E v \in {"options", "code"} : msgs = {Push(v)}
                     \/ \E d \in {"delete", "sign"} : msgs = {SetKind(d), Push("prompt")}
  BY DEF PressTab, PressEnter, PressDelete, PressSign
<1>2. \A m \in msgs : m \in Messages /\ m.kind \in {"push", "setkind"}
  BY <1>1, Kinds, MessageTypes DEF Views, Dialogs
<1>3. /\ \A v, w \in Views : Push(v) \in msgs /\ Push(w) \in msgs => w = v
      /\ SetKind("visibility") \notin msgs
  BY <1>1, Kinds
<1> QED
  BY <1>1, <1>2, <1>3, ChooseStep

LEMMA ChangeKeyStep ==
    ASSUME TInv, NEW msgs, msgs \subseteq Messages, Plain(msgs),
           \A m \in msgs : m.kind \in {"reload", "feedback"},
           PageOK', keys' = keys, WindowsOK',
           UNCHANGED <<items, stack, index, dialog, chosen, crossed>>, copy'.id = copy.id,
           Reload \in msgs \/ UNCHANGED <<db, ours>>,
           Steady => index <= Len(Offered(copy')),
           "load" \notin rushed' => Consented(copy)', DeletedByUs'
    PROVE  TInv' /\ OnSecondX
<1>1. Key(msgs)
  BY DEF Plain
<1>2. FlightOK'
  BY <1>1, Typed, KeyType
<1>3. Core'
  BY <1>1, Typed, ChangeKey
<1>4. Care'
  <2>1. /\ SetKind("visibility") \notin msgs /\ \A v : Push(v) \notin msgs
        /\ \A m \in msgs : m.kind # "loaded"
    BY Kinds
  <2>2. Steady => /\ index' <= Len(Offered(copy'))
                  /\ dialog = "visibility" => index' <= 4
    BY Typed DEF Care, IndexFits
  <2> QED
    BY <1>1, <2>1, <2>2, Typed, CareKey
<1> QED
  BY <1>2, <1>3, <1>4, TypeParts DEF OnSecondX

LEMMA FeedbackMessage ==
    \A b \in BOOLEAN : Feedback(b) \in Messages /\ Feedback(b).kind = "feedback"
BY Kinds, MessageTypes

LEMMA DoneMessages ==
    /\ Done \subseteq Messages /\ Reload \in Done
    /\ \A m \in Done : m.kind \in {"reload", "feedback"}
<1>1. Feedback(TRUE) \in Messages /\ Feedback(TRUE).kind = "feedback"
  BY FeedbackMessage
<1>2. Reload \in Messages /\ Reload.kind = "reload"
  BY Kinds, MessageTypes
<1>3. Done = {Reload, Feedback(TRUE)}
  BY DEF Done
<1> QED
  BY <1>1, <1>2, <1>3, Zenon

(* The prompt acts on a copy of a file.                                    *)
LEMMA ActingOn ==
    ASSUME TInv, Acting
    PROVE  copy \in Item /\ copy.id \in Files /\ Top = "prompt" /\ ~finished
BY Typed DEF WindowsOK, Acting, Item

(* What a call that changes a file does to it, if it is there.             *)
LEMMA WriteParts ==
    ASSUME TInv, NEW f \in Files, NEW new \in {"private", "public", "deleted"}, Write(f, new)
    PROVE  /\ db' \in [Files -> {"none", "private", "public", "deleted", "gone"}]
           /\ ours' \subseteq Files /\ DeletedByUs'
           /\ \A g \in Files : g # f => db'[g] = db[g]
           /\ db'[f] = IF Exists(f) THEN new ELSE db[f]
<1>1. /\ db \in [Files -> {"none", "private", "public", "deleted", "gone"}]
      /\ ours \subseteq Files /\ DeletedByUs
  BY Typed DEF WindowsOK, Care
<1>2. CASE Exists(f)
  <2>1. db' = [db EXCEPT ![f] = new] /\ ours' = ours \cup {f}
    BY <1>2 DEF Write
  <2> QED
    BY <1>1, <1>2, <2>1 DEF DeletedByUs
<1>3. CASE ~Exists(f)
  <2>1. UNCHANGED <<db, ours>>
    BY <1>3 DEF Write, stored
  <2> QED
    BY <1>1, <1>3, <2>1 DEF DeletedByUs
<1> QED
  BY <1>2, <1>3

(* Files.Update: the file is as the copy says.                             *)
LEMMA UpdateParts ==
    ASSUME TInv, NEW file \in Item, Update(file)
    PROVE  /\ db' \in [Files -> {"none", "private", "public", "deleted", "gone"}]
           /\ ours' \subseteq Files /\ DeletedByUs'
           /\ \A g \in Files : g # file.id => db'[g] = db[g]
           /\ db'[file.id] = "private" => file.private
           /\ db'[file.id] = "public" /\ db[file.id] # "public" => ~file.private
<1> DEFINE new == IF file.private THEN "private" ELSE "public"
<1>1. file.id \in Files /\ new \in {"private", "public", "deleted"} /\ Write(file.id, new)
  BY DEF Update, Item
<1>2. /\ new = "private" => file.private
      /\ new = "public" => ~file.private
  OBVIOUS
<1> HIDE DEF new
<1>3. db'[file.id] = IF Exists(file.id) THEN new ELSE db[file.id]
  BY <1>1, WriteParts
<1> QED
  BY <1>1, <1>2, <1>3, WriteParts DEF Exists

LEMMA SubmitDeleteStep ==
    ASSUME TInv, SubmitDelete
    PROVE  TInv' /\ OnSecondX
<1>1. copy \in Item /\ copy.id \in Files /\ Top = "prompt"
  BY ActingOn DEF SubmitDelete
<1>2. /\ Plain(Done) /\ Write(copy.id, "deleted")
      /\ UNCHANGED <<settingsVars, items, stack, copy, shown, index, dialog, finished, history>>
  BY DEF SubmitDelete, windows
<1>3. PageOK' /\ keys' = keys
  BY <1>1, <1>2, PlainPage
<1>4. /\ db' \in [Files -> {"none", "private", "public", "deleted", "gone"}]
      /\ ours' \subseteq Files /\ DeletedByUs' /\ db'[copy.id] # "private"
  BY <1>1, <1>2, WriteParts DEF Exists
<1>5. WindowsOK'
  BY <1>2, <1>4, Typed DEF WindowsOK, history
<1>6. Consented(copy)' /\ (Steady => index <= Len(Offered(copy')))
  BY <1>2, <1>4, Typed DEF Care, IndexFits, Consented
<1> QED
  BY <1>2, <1>3, <1>4, <1>5, <1>6, DoneMessages, ChangeKeyStep DEF history

LEMMA SubmitEditStep ==
    ASSUME TInv, SubmitEdit
    PROVE  TInv' /\ OnSecondX
<1>1. copy \in Item /\ copy.id \in Files /\ Top = "prompt"
  BY ActingOn DEF SubmitEdit
<1>2. /\ Plain(Done) /\ Update(copy)
      /\ UNCHANGED <<settingsVars, items, stack, copy, shown, index, dialog, finished, history>>
  BY DEF SubmitEdit, windows
<1>3. PageOK' /\ keys' = keys
  BY <1>1, <1>2, PlainPage
<1>4. /\ db' \in [Files -> {"none", "private", "public", "deleted", "gone"}]
      /\ ours' \subseteq Files /\ DeletedByUs'
      /\ db'[copy.id] = "private" => copy.private
  BY <1>1, <1>2, UpdateParts
<1>5. WindowsOK'
  BY <1>2, <1>4, Typed DEF WindowsOK, history
<1>6. Consented(copy)' /\ (Steady => index <= Len(Offered(copy')))
  BY <1>2, <1>4, Typed DEF Care, IndexFits, Consented
<1> QED
  BY <1>2, <1>3, <1>4, <1>5, <1>6, DoneMessages, ChangeKeyStep DEF history

LEMMA SubmitVisibilityStep ==
    ASSUME TInv, NEW answer \in {"yes", "no", "undecided"}, SubmitVisibility(answer)
    PROVE  TInv' /\ OnSecondX
<1> DEFINE new == [copy EXCEPT !.private = ~@]
<1>1. copy \in Item /\ copy.id \in Files /\ Top = "prompt" /\ dialog = "visibility"
  BY ActingOn DEF SubmitVisibility
<1>2. UNCHANGED <<settingsVars, items, stack, shown, index, dialog, finished, chosen, crossed>>
  BY DEF SubmitVisibility
<1>3. CASE answer = "yes"
  <2>1. /\ copy' = new
        /\ asked' = IF copy.private THEN asked \cup {copy.id} ELSE asked \ {copy.id}
        /\ \/ Update(new) /\ Plain(Done)
           \/ Plain({Feedback(FALSE)}) /\ UNCHANGED stored
    BY <1>3 DEF SubmitVisibility
  <2>2. new \in Item /\ new.id = copy.id /\ (new.private <=> ~copy.private)
    BY <1>1 DEF Item
  <2> HIDE DEF new
  <2>3. /\ asked' \subseteq Files
        /\ ~new.private => copy.id \in asked'
    BY <1>1, <2>1, <2>2, Typed DEF WindowsOK
  <2>4. PICK msgs : /\ Plain(msgs) /\ msgs \subseteq Messages
                    /\ \A m \in msgs : m.kind \in {"reload", "feedback"}
                    /\ Reload \in msgs \/ UNCHANGED stored
                    /\ Update(new) \/ UNCHANGED stored
    <3>1. CASE Update(new) /\ Plain(Done)
      BY <3>1, DoneMessages
    <3>2. CASE Plain({Feedback(FALSE)}) /\ UNCHANGED stored
      <4>1. PICK m : m = Feedback(FALSE)
        OBVIOUS
      <4>2. m \in Messages /\ m.kind = "feedback" /\ Plain({m}) /\ UNCHANGED stored
        BY <3>2, <4>1, FeedbackMessage, Zenon
      <4> QED
        BY <4>2
    <3> QED
      BY <2>1, <3>1, <3>2
  <2>5. /\ db' \in [Files -> {"none", "private", "public", "deleted", "gone"}]
        /\ ours' \subseteq Files /\ DeletedByUs'
    <3>1. CASE Update(new)
      BY <2>2, <3>1, UpdateParts
    <3>2. CASE UNCHANGED stored
      BY <3>2, Typed DEF WindowsOK, stored, Care, DeletedByUs
    <3> QED
      BY <2>4, <3>1, <3>2
  <2>6. PageOK' /\ keys' = keys
    BY <1>1, <1>2, <2>4, PlainPage
  <2>7. WindowsOK'
    BY <1>2, <2>1, <2>2, <2>3, <2>5, Typed DEF WindowsOK
  <2>8. Consented(copy)' /\ copy'.id = copy.id
    BY <2>1, <2>2, <2>3 DEF Consented
  <2>9. Steady => index <= Len(Offered(copy'))
    <3>1. PICK n \in 4..5 : n = Len(Offered(copy'))
      BY DEF Offered
    <3>2. Steady => index <= 4
      BY <1>1, Typed DEF Care, IndexFits
    <3>3. index \in 1..5
      BY Typed DEF WindowsOK
    <3> QED
      BY <3>1, <3>2, <3>3
  <2>10. Reload \in msgs \/ UNCHANGED <<db, ours>>
    BY <2>4 DEF stored
  <2> QED
    BY <1>2, <2>4, <2>5, <2>6, <2>7, <2>8, <2>9, <2>10, ChangeKeyStep
<1>4. CASE answer = "no"
  <2> DEFINE msgs == {Pop}
  <2>1. UNCHANGED <<browsing, history>> /\ Plain(msgs)
    BY <1>2, <1>4 DEF SubmitVisibility, browsing, windows, history
  <2>2. /\ msgs \subseteq Messages /\ SetKind("visibility") \notin msgs
        /\ \A v : Push(v) \notin msgs
        /\ \A m \in msgs : m.kind = "pop"
    BY Kinds, MessageTypes
  <2> HIDE DEF msgs
  <2> QED
    BY <1>1, <1>2, <2>1, <2>2, AwayStep
<1>5. CASE answer = "undecided"
  <2>1. UNCHANGED <<browsing, history>> /\ Plain({Feedback(FALSE)})
    BY <1>2, <1>5 DEF SubmitVisibility, browsing, windows, history
  <2> QED
    BY <1>1, <1>2, <2>1, RefuseStep
<1> QED
  BY <1>3, <1>4, <1>5

LEMMA DeleteEverythingStep ==
    ASSUME TInv, DeleteEverything
    PROVE  TInv' /\ OnSecondX
<1>1. /\ Top = "settings" /\ page' = "root" /\ UNCHANGED apiKeysVars
      /\ db' = [f \in Files |-> IF Exists(f) THEN "deleted" ELSE db[f]]
      /\ ours' = ours \cup {f \in Files : Exists(f)}
      /\ Plain({Reload})
      /\ UNCHANGED <<items, stack, copy, shown, index, dialog, finished, history>>
  BY DEF DeleteEverything, InSettings, Back, windows
<1>2. pressed' = 0
  BY <1>1 DEF Plain
<1>3. PageOK' /\ keys' = keys
  BY <1>1, <1>2, Typed, PageRoot
<1>4. WindowsOK'
  BY <1>1, Typed DEF WindowsOK, history
<1>5. Consented(copy)' /\ DeletedByUs'
  <2>1. \A f \in Files : db'[f] # "private" /\ (db'[f] = "deleted" => Exists(f) \/ db[f] = "deleted")
    BY <1>1 DEF Exists
  <2>2. DeletedByUs'
    BY <1>1, <2>1, Typed DEF Care, DeletedByUs
  <2>3. copy' = copy /\ (copy.id \in Files \/ copy.private)
    BY <1>1, Typed DEF WindowsOK, Item, NoCopy
  <2> QED
    BY <2>1, <2>2, <2>3 DEF Consented
<1>7. Steady => index <= Len(Offered(copy'))
  BY <1>1, Typed DEF Care, IndexFits
<1> DEFINE msgs == {Reload}
<1>6. /\ msgs \subseteq Messages /\ Reload \in msgs /\ Plain(msgs)
      /\ \A m \in msgs : m.kind = "reload"
  BY <1>1, Kinds, MessageTypes
<1> HIDE DEF msgs
<1> QED
  BY <1>1, <1>3, <1>4, <1>5, <1>6, <1>7, ChangeKeyStep DEF history

-----------------------------------------------------------------------------
(* The handlers and the ends. *)

LEMMA HandlerStep ==
    ASSUME TInv, NEW m, NEW new, new \subseteq Messages, BagIn(m, flight), Become(m, new),
           UNCHANGED <<settingsVars, ended, hasty, elsewhere, rushed, pressed>>,
           WindowsOK', Core', Care'
    PROVE  TInv' /\ OnSecondX
<1>1. FlightOK'
  BY Typed, HandlerType
<1>2. PageOK' /\ keys' = keys
  BY Typed, PageKept
<1> QED
  BY <1>1, <1>2, TypeParts DEF OnSecondX

LEMMA LoadFileStep ==
    ASSUME TInv, NEW f \in Files, LoadFile(f)
    PROVE  TInv' /\ OnSecondX
<1>1. UNCHANGED <<settingsVars, ended, hasty, elsewhere, rushed, pressed, browsing, history>>
  BY DEF LoadFile, Running
<1>2. PICK new \in SUBSET Messages :
         /\ BagIn(Load(f), flight) /\ Become(Load(f), new)
         /\ \A e \in new : e.kind \in {"loaded", "quit"}
         /\ \A e \in new : e.kind = "loaded" => Consented(e.file)
  <2> DEFINE file == [id |-> f, private |-> db[f] = "private"]
  <2>1. file \in Item /\ Consented(file)
    BY DEF Item, Consented
  <2>2. BagIn(Load(f), flight) /\ (Become(Load(f), {Loaded(file)}) \/ Become(Load(f), {Quit}))
    BY DEF LoadFile
  <2> HIDE DEF file
  <2>3. /\ {Loaded(file)} \subseteq Messages /\ {Quit} \subseteq Messages
        /\ \A e \in {Loaded(file)} : e.kind = "loaded" /\ e.file = file
        /\ \A e \in {Quit} : e.kind = "quit"
    BY <2>1, Kinds, MessageTypes
  <2> QED
    BY <2>1, <2>2, <2>3
<1>3. WindowsOK'
  BY <1>1, Typed DEF WindowsOK, browsing, stored, windows, history
<1>4. Core'
  BY Typed, LoadFileCore
<1>5. Care'
  BY <1>1, <1>2, Kinds, Typed, CareHandle DEF browsing, stored, windows, history
<1> QED
  BY <1>1, <1>2, <1>3, <1>4, <1>5, HandlerStep

LEMMA ReloadFilesStep ==
    ASSUME TInv, ReloadFiles
    PROVE  TInv' /\ OnSecondX
<1>1. UNCHANGED <<settingsVars, ended, hasty, elsewhere, rushed, pressed, browsing, history>>
  BY DEF ReloadFiles, Running
<1>2. PICK new \in SUBSET Messages : /\ BagIn(Reload, flight) /\ Become(Reload, new)
                                     /\ \A e \in new : e.kind \in {"reloaded", "quit"}
  <2>1. Found \in SUBSET Item
    <3>1. \A f \in Files : [id |-> f, private |-> db[f] = "private"] \in Item
      BY DEF Item
    <3> QED
      BY <3>1, Zenon DEF Found
  <2> QED
    BY <2>1, Kinds, MessageTypes DEF ReloadFiles
<1>3. WindowsOK'
  BY <1>1, Typed DEF WindowsOK, browsing, stored, windows, history
<1>4. Core'
  BY Typed, ReloadFilesCore
<1>5. Care'
  BY <1>1, <1>2, Kinds, Typed, CareHandle DEF browsing, stored, windows, history
<1> QED
  BY <1>1, <1>2, <1>3, <1>4, <1>5, HandlerStep

LEMMA HandlePushStep ==
    ASSUME TInv, NEW v \in Views, HandlePush(v)
    PROVE  TInv' /\ OnSecondX
<1>1. /\ UNCHANGED <<ended, hasty, elsewhere, rushed, pressed, history>>
      /\ UNCHANGED <<db, ours, items, copy, shown, index, dialog, finished>>
      /\ BagIn(Push(v), flight) /\ Become(Push(v), {}) /\ stack' = Append(stack, v)
      /\ UNCHANGED settingsVars \/ (page' = "root" /\ UNCHANGED apiKeysVars)
  BY DEF HandlePush, Running, Reset, stored
<1>2. FlightOK'
  BY <1>1, Typed, HandlerType
<1>3. PageOK' /\ keys' = keys
  <2>1. pressed' \in Ids \cup {0}
    BY <1>1, Typed DEF PageOK
  <2> QED
    BY <1>1, <2>1, Typed, PageKept, PageRoot
<1>4. WindowsOK'
  <2>1. stack' \in Seq(Views)
    BY <1>1, Typed DEF WindowsOK
  <2> QED
    BY <1>1, <2>1, Typed DEF WindowsOK, history
<1>5. Core'
  BY Typed, HandlePushCore
<1>6. Care'
  BY Typed, HandlePushCare
<1> QED
  BY <1>2, <1>3, <1>4, <1>5, <1>6, TypeParts DEF OnSecondX

LEMMA HandlePopStep ==
    ASSUME TInv, HandlePop
    PROVE  TInv' /\ OnSecondX
<1>1. /\ UNCHANGED <<settingsVars, db, ours, items, copy, shown, index>>
      /\ UNCHANGED <<hasty, elsewhere, rushed, pressed, history>>
      /\ stack' = Front(stack) /\ dialog' = "none" /\ finished' = FALSE
      /\ ended = "no" /\ BagIn(Pop, flight)
  BY DEF HandlePop, stored
<1>2. WindowsOK'
  <2>1. stack \in Seq(Views) /\ stack # <<>>
    BY <1>1, Typed DEF WindowsOK, Core, Grounded
  <2>2. stack' \in Seq(Views)
    BY <1>1, <2>1, FrontParts
  <2> QED
    BY <1>1, <2>2, Typed DEF WindowsOK, history
<1>3. Core'
  BY Typed, HandlePopCore
<1>4. FlightOK'
  <2>1. CASE ended' = "underflow" /\ flight' = EmptyBag
    BY <1>1, <2>1, Typed, EndType
  <2>2. CASE UNCHANGED ended /\ \E new \in SUBSET {Deselect} : Become(Pop, new)
    <3>1. PICK new \in SUBSET {Deselect} : Become(Pop, new)
      BY <2>2
    <3>2. new \subseteq Messages
      BY MessageTypes
    <3> QED
      BY <1>1, <2>2, <3>1, <3>2, Typed, HandlerType
  <2> QED
    BY <2>1, <2>2 DEF HandlePop
<1>5. PageOK' /\ keys' = keys
  BY <1>1, Typed, PageKept
<1>6. Care'
  BY Typed, HandlePopCare
<1> QED
  BY <1>2, <1>3, <1>4, <1>5, <1>6, TypeParts DEF OnSecondX

(* Deselect, SetKind and Feedback.                                         *)
LEMMA QuietHandleStep ==
    ASSUME TInv, NEW m, BagIn(m, flight), Become(m, {}), Running,
           m.kind \in {"deselect", "setkind", "feedback"},
           UNCHANGED <<settingsVars, db, ours, items, stack, copy>>, index' = index \/ index' = 1,
           shown' \in BOOLEAN, finished' \in BOOLEAN, dialog' \in Dialogs \cup {"none"},
           dialog' = dialog \/ (Top = "prompt" /\ m = SetKind(dialog'))
    PROVE  TInv' /\ OnSecondX
<1>1. UNCHANGED <<ended, hasty, elsewhere, rushed, pressed, history>>
  BY DEF Running
<1>2. WindowsOK'
  BY <1>1, Typed DEF WindowsOK, history
<1>3. Core'
  BY <1>1, Typed, QuietHandle
<1> DEFINE new == {}
<1>4. new \subseteq Messages /\ Become(m, new) /\ \A e : e \notin new
  OBVIOUS
<1> HIDE DEF new
<1>5. Care'
  BY <1>1, <1>4, Typed, CareHandle DEF history
<1> QED
  BY <1>1, <1>2, <1>3, <1>4, <1>5, HandlerStep

LEMMA HandleLoadedStep ==
    ASSUME TInv, NEW item \in Item, HandleLoaded(item)
    PROVE  TInv' /\ OnSecondX
<1> DEFINE new == {}
<1>1. /\ UNCHANGED <<settingsVars, ended, hasty, elsewhere, rushed, pressed, history>>
      /\ UNCHANGED <<db, ours, items, stack, dialog, finished>>
      /\ BagIn(Loaded(item), flight) /\ Become(Loaded(item), new)
      /\ copy' = item /\ shown' = TRUE /\ index' = 1
  BY DEF HandleLoaded, Running, stored
<1>2. WindowsOK'
  BY <1>1, Typed DEF WindowsOK, history
<1>3. Core'
  BY Typed, HandleLoadedCore
<1>4. new \subseteq Messages /\ \A e : e \notin new
  OBVIOUS
<1> HIDE DEF new
<1>5. Care'
  BY <1>1, <1>4, Kinds, Typed, CareHandle DEF history
<1> QED
  BY <1>1, <1>2, <1>3, <1>4, <1>5, HandlerStep

LEMMA HandleReloadedStep ==
    ASSUME TInv, NEW files \in SUBSET Item, HandleReloaded(files)
    PROVE  TInv' /\ OnSecondX
<1> DEFINE new == {}
<1>1. /\ UNCHANGED <<settingsVars, ended, hasty, elsewhere, rushed, pressed, history>>
      /\ UNCHANGED <<db, ours, copy, shown, index, dialog, finished>>
      /\ BagIn(Reloaded(files), flight) /\ Become(Reloaded(files), new)
      /\ items' = files /\ stack' = Drop("options", stack)
  BY DEF HandleReloaded, Running, stored
<1>2. WindowsOK'
  <2>1. stack' \in Seq(Views)
    BY <1>1, Typed, Dropped DEF WindowsOK
  <2> QED
    BY <1>1, <2>1, Typed DEF WindowsOK, history
<1>3. Core'
  BY Typed, HandleReloadedCore
<1>4. Care'
  BY Typed, HandleReloadedCare
<1>5. new \subseteq Messages
  OBVIOUS
<1> HIDE DEF new
<1> QED
  BY <1>1, <1>2, <1>3, <1>4, <1>5, HandlerStep

LEMMA EndStep ==
    ASSUME TInv, NEW how \in {"quit", "killed", "overrun"}, End(how),
           how = "overrun" => ~(rushed \cap {"push", "setkind"} = {})
    PROVE  TInv' /\ OnSecondX
<1>1. /\ flight' = EmptyBag /\ ended' = how
      /\ UNCHANGED <<settingsVars, browsing, hasty, elsewhere, history, rushed, pressed>>
  BY DEF End
<1>2. FlightOK'
  BY <1>1, Typed, EndType
<1>3. PageOK' /\ keys' = keys
  BY <1>1, Typed, PageKept
<1>4. WindowsOK'
  BY <1>1, Typed DEF WindowsOK, browsing, stored, windows, history
<1>5. Core'
  BY <1>1, Typed, EndedCore DEF history
<1>6. Care'
  BY <1>1, Typed, EndedCare DEF browsing, stored, windows, history
<1> QED
  BY <1>2, <1>3, <1>4, <1>5, <1>6, TypeParts DEF OnSecondX

(* The cursor is beyond the options only if a key crossed a window about   *)
(* to open, or a dialog about to be set.                                   *)
LEMMA OverrunStep ==
    ASSUME TInv, PressOptionOverrun
    PROVE  TInv' /\ OnSecondX
<1>1. End("overrun") /\ ended = "no" /\ index > Len(Offered(copy))
  BY DEF PressOptionOverrun, End
<1>2. index \in 1..5 /\ Len(Offered(copy)) \in {4, 5}
  BY Typed DEF WindowsOK, Offered
<1>3. ~(index <= Len(Offered(copy)))
  BY <1>1, <1>2
<1>4. ~Steady
  BY <1>3, Typed DEF Care, IndexFits
<1> QED
  BY <1>1, <1>4, EndStep DEF Steady

LEMMA ElsewhereStep ==
    ASSUME TInv, NEW f \in Files, NEW new \in {"private", "public", "gone"}, Elsewhere(f, new)
    PROVE  TInv' /\ OnSecondX
<1>1. /\ UNCHANGED <<settingsVars, items, stack, copy, shown, index, dialog, finished,
                     flight, ended, hasty, history, rushed, pressed>>
      /\ db' = [db EXCEPT ![f] = new] /\ ours' = ours \ {f}
      /\ elsewhere < MaxElsewhere /\ elsewhere' = elsewhere + 1
  BY DEF Elsewhere, windows
<1>2. FlightOK'
  <2>1. elsewhere' \in 0..MaxElsewhere
    BY <1>1, Typed, MaxFlightAssumption DEF FlightOK
  <2> QED
    BY <1>1, <2>1, Typed DEF FlightOK, Sent
<1>3. PageOK' /\ keys' = keys
  BY <1>1, Typed, PageKept
<1>4. WindowsOK'
  BY <1>1, Typed DEF WindowsOK, history
<1>5. Core'
  BY Typed, ElsewhereCore
<1>6. Care'
  BY Typed, ElsewhereCare
<1> QED
  BY <1>2, <1>3, <1>4, <1>5, <1>6, TypeParts DEF OnSecondX

LEMMA StutterStep ==
    ASSUME TInv, UNCHANGED vars
    PROVE  TInv' /\ OnSecondX
<1>1. UNCHANGED <<settingsVars, browsing, flight, ended, hasty, elsewhere, history, rushed,
                  pressed>>
  BY DEF vars
<1>2. UNCHANGED <<db, ours, items, stack, copy, shown, index, dialog, finished>>
  BY <1>1 DEF browsing, stored, windows
<1>3. FlightOK' /\ WindowsOK'
  BY <1>1, <1>2, Typed DEF FlightOK, WindowsOK, Sent, history
<1>4. PageOK' /\ keys' = keys
  BY <1>1, Typed, PageKept
<1>5. /\ Sent' = Sent /\ \A kinds : UnderWay(kinds)' = UnderWay(kinds)
      /\ HasOptions' = HasOptions /\ \A l : Fresh(l)' = Fresh(l)
      /\ Top' = Top /\ Steady' = Steady /\ \A file : Consented(file)' = Consented(file)
  BY <1>1, <1>2 DEF Sent, UnderWay, HasOptions, Fresh, Exists, Top, Last, Steady, Consented, history
<1>6. Core'
  BY <1>1, <1>2, <1>5, Typed DEF Core, Grounded, PopsFit, LoadsChosen, ItemsFresh, OptionsFit,
     history
<1>7. Care'
  BY <1>1, <1>2, <1>5, Typed DEF Care, PromptFits, IndexFits, AllConsented, DeletedByUs
<1> QED
  BY <1>3, <1>4, <1>6, <1>7, TypeParts DEF OnSecondX

(* A private file is made public by an answer or an edit of the prompt, of *)
(* the copy it has.                                                        *)
OnConsent ==
    \A f \in Files : db[f] = "private" /\ db'[f] = "public" /\ f \in ours' =>
        f \in asked' \/ f \notin ours \/ "load" \in rushed'

LEMMA ConsentStep ==
    ASSUME TInv, [Next]_vars
    PROVE  OnConsent
<1>1. CASE UNCHANGED db
  BY <1>1 DEF OnConsent
<1>2. CASE \/ PressQuit \/ PressSettings \/ PressBack
           \/ \E item \in items :
                 PressTab(item) \/ PressEnter(item) \/ PressDelete(item) \/ PressSign(item)
           \/ PressMove \/ PressOption \/ PressOptionOverrun \/ SubmitSign
           \/ \E d \in Dialogs : Refuse(d)
  <2>1. UNCHANGED db
    BY <1>2 DEF PressQuit, PressSettings, PressBack, PressTab, PressEnter, PressDelete, PressSign,
       Choose, PressMove, PressOption, PressOptionOverrun, End, SubmitSign, Refuse, browsing, stored
  <2> QED
    BY <1>1, <2>1
<1>3. CASE \/ PressOnPage \/ PressX \/ ReloadFiles \/ HandlePop \/ HandleDeselect
           \/ HandleQuit \/ Kill \/ UNCHANGED vars
           \/ \E f \in Files : LoadFile(f)
           \/ \E v \in Views : HandlePush(v)
           \/ \E item \in Item : HandleLoaded(item)
           \/ \E files \in SUBSET Item : HandleReloaded(files)
           \/ \E d \in Dialogs : HandleSetKind(d)
           \/ \E done \in BOOLEAN : HandleFeedback(done)
  <2>1. UNCHANGED db
    BY <1>3 DEF PressOnPage, PressX, ReloadFiles, HandlePop, HandleDeselect, HandleQuit, Kill, End,
       LoadFile, HandlePush, HandleLoaded, HandleReloaded, HandleSetKind, HandleFeedback,
       browsing, stored, vars
  <2> QED
    BY <1>1, <2>1
<1>4. CASE SubmitDelete
  <2>1. copy.id \in Files /\ Write(copy.id, "deleted")
    BY <1>4, ActingOn DEF SubmitDelete
  <2> QED
    BY <2>1, WriteParts DEF OnConsent
<1>5. CASE SubmitEdit
  <2>1. copy \in Item /\ copy.id \in Files /\ Update(copy) /\ Plain(Done) /\ UNCHANGED history
    BY <1>5, ActingOn DEF SubmitEdit
  <2>2. rushed \subseteq rushed' /\ asked' = asked
    BY <2>1, KeyRushed DEF Plain, history
  <2>3. "load" \notin rushed => Consented(copy)
    BY Typed DEF Care, AllConsented
  <2> QED
    BY <2>1, <2>2, <2>3, UpdateParts DEF OnConsent, Consented
<1>6. ASSUME NEW answer \in {"yes", "no", "undecided"}, SubmitVisibility(answer)
      PROVE  OnConsent
  <2> DEFINE new == [copy EXCEPT !.private = ~@]
  <2>1. copy \in Item /\ copy.id \in Files
    BY <1>6, ActingOn DEF SubmitVisibility
  <2>2. CASE UNCHANGED stored
    BY <1>1, <2>2 DEF stored
  <2>3. CASE Update(new) /\ answer = "yes"
    <3>1. new \in Item /\ new.id = copy.id /\ (new.private <=> ~copy.private)
      BY <2>1 DEF Item
    <3>2. asked' = IF copy.private THEN asked \cup {copy.id} ELSE asked \ {copy.id}
      BY <1>6, <2>3 DEF SubmitVisibility
    <3> HIDE DEF new
    <3> QED
      BY <2>1, <2>3, <3>1, <3>2, UpdateParts DEF OnConsent
  <2> QED
    BY <1>6, <2>2, <2>3 DEF SubmitVisibility
<1>7. CASE DeleteEverything
  <2>1. db' = [f \in Files |-> IF Exists(f) THEN "deleted" ELSE db[f]]
    BY <1>7 DEF DeleteEverything
  <2> QED
    BY <2>1 DEF OnConsent
<1>8. ASSUME NEW f \in Files, NEW new \in {"private", "public", "gone"}, Elsewhere(f, new)
      PROVE  OnConsent
  <2>1. db' = [db EXCEPT ![f] = new] /\ ours' = ours \ {f}
    BY <1>8 DEF Elsewhere
  <2> QED
    BY <2>1, Typed DEF OnConsent, WindowsOK
<1> QED
  BY <1>2, <1>3, <1>4, <1>5, <1>6, <1>7, <1>8 DEF Next

-----------------------------------------------------------------------------
(* The theorems. *)

LEMMA InitInv ==
    ASSUME Init
    PROVE  TInv
<1>1. PICK start \in Starts :
         /\ db = [f \in Files |-> IF f \in start.private THEN "private"
                                  ELSE IF f \in start.public THEN "public" ELSE "none"]
         /\ SettingsInit(start.keys, start.spare)
  BY DEF Init
<1>2. start.keys \subseteq Ids /\ start.spare \subseteq Ids
  BY StartsAssumption
<1>3. /\ items = Found /\ stack = <<"browser">> /\ copy = NoCopy /\ shown = FALSE
      /\ dialog = "none" /\ finished = FALSE /\ flight = EmptyBag /\ ended = "no"
      /\ hasty = 0 /\ chosen = NoFile /\ crossed = FALSE /\ rushed = {} /\ asked = {}
      /\ pressed = 0 /\ index = 1 /\ elsewhere = 0 /\ ours = Files
  BY DEF Init
<1>4. flight = [e \in {} |-> 1] /\ Sent = {}
  BY <1>3 DEF EmptyBag, SetToBag, Sent, BagToSet
<1>5. FlightOK
  BY <1>3, <1>4, MaxFlightAssumption DEF FlightOK, IsABag
<1>6. PageOK
  <2>1. cursor \in 1..(IF rows = {} THEN 1 ELSE Cardinality(rows))
    BY <1>1 DEF SettingsInit
  <2> QED
    BY <1>1, <1>2, <1>3, <2>1 DEF SettingsInit, PageOK, SettingsTypeOK, ArmedByX, Pages
<1>7. WindowsOK
  <2>1. db \in [Files -> {"none", "private", "public", "deleted", "gone"}]
    BY <1>1
  <2>2. items \subseteq Item
    <3>1. \A f \in Files : [id |-> f, private |-> db[f] = "private"] \in Item
      BY DEF Item
    <3> QED
      BY <1>3, <3>1, Zenon DEF Found
  <2>3. stack \in Seq(Views)
    BY <1>3 DEF Views
  <2>4. index \in 1..5 /\ asked \subseteq Files /\ ours \subseteq Files
    BY <1>3
  <2> QED
    BY <1>3, <2>1, <2>2, <2>3, <2>4, Zenon DEF WindowsOK
<1>8. Core
  <2>1. Grounded /\ PopsFit
    BY <1>3, <1>4 DEF Grounded, PopsFit
  <2>3. LoadsChosen
    BY <1>3, <1>4 DEF LoadsChosen, NoCopy
  <2>4. ItemsFresh
    BY <1>3, <1>4, FoundFresh DEF ItemsFresh
  <2>5. OptionsFit
    <3>1. ~HasOptions
      BY <1>3, <1>4 DEF HasOptions
    <3>2. ~UnderWay({"push"})
      BY <1>4 DEF UnderWay, Sent
    <3> QED
      BY <3>1, <3>2 DEF OptionsFit
  <2> QED
    BY <2>1, <2>3, <2>4, <2>5 DEF Core
<1>9. Care
  <2>1. Top = "browser" /\ Len(stack) = 1 /\ stack[1] = "browser"
    BY <1>3 DEF Top, Last
  <2>2. PromptFits
    BY <1>3, <1>4, <2>1 DEF PromptFits
  <2>3. IndexFits
    BY <1>3, <1>4 DEF IndexFits, Offered
  <2>4. AllConsented
    BY <1>3, <1>4 DEF AllConsented, Consented, NoCopy
  <2>5. DeletedByUs
    BY <1>3 DEF DeletedByUs
  <2> QED
    BY <2>2, <2>3, <2>4, <2>5 DEF Care
<1> QED
  BY <1>5, <1>6, <1>7, <1>8, <1>9, TypeParts

LEMMA NextStep ==
    ASSUME TInv, [Next]_vars
    PROVE  TInv' /\ OnSecondX
<1>1. CASE PressQuit \/ PressSettings \/ PressBack
  BY <1>1, PressQuitStep, PressSettingsStep, PressBackStep
<1>2. ASSUME NEW item \in items,
             PressTab(item) \/ PressEnter(item) \/ PressDelete(item) \/ PressSign(item)
      PROVE  TInv' /\ OnSecondX
  BY <1>2, BrowserStep
<1>3. ASSUME NEW d \in Dialogs, Refuse(d)
      PROVE  TInv' /\ OnSecondX
  <2>1. /\ Plain({Feedback(FALSE)}) /\ Top = "prompt"
        /\ UNCHANGED <<settingsVars, browsing, history>>
    BY <1>3 DEF Refuse, Acting
  <2> QED
    BY <2>1, RefuseStep
<1>19. CASE PressMove \/ PressOption \/ PressOptionOverrun
  BY <1>19, PressMoveStep, PressOptionStep, OverrunStep
<1>4. CASE SubmitDelete \/ SubmitEdit
  BY <1>4, SubmitDeleteStep, SubmitEditStep
<1>5. CASE SubmitSign
  <2>1. /\ Plain({Feedback(TRUE)}) /\ Top = "prompt"
        /\ UNCHANGED <<settingsVars, browsing, history>>
    BY <1>5 DEF SubmitSign, Acting
  <2> QED
    BY <2>1, RefuseStep
<1>6. ASSUME NEW answer \in {"yes", "no", "undecided"}, SubmitVisibility(answer)
      PROVE  TInv' /\ OnSecondX
  BY <1>6, SubmitVisibilityStep
<1>7. CASE PressOnPage \/ PressX \/ DeleteEverything
  BY <1>7, OnPageStep, DeleteEverythingStep
<1>8. ASSUME NEW f \in Files, LoadFile(f)
      PROVE  TInv' /\ OnSecondX
  BY <1>8, LoadFileStep
<1>20. ASSUME NEW f \in Files, NEW new \in {"private", "public", "gone"}, Elsewhere(f, new)
       PROVE  TInv' /\ OnSecondX
  BY <1>20, ElsewhereStep
<1>9. CASE ReloadFiles
  BY <1>9, ReloadFilesStep
<1>10. ASSUME NEW v \in Views, HandlePush(v)
       PROVE  TInv' /\ OnSecondX
  BY <1>10, HandlePushStep
<1>11. CASE HandlePop
  BY <1>11, HandlePopStep
<1>12. CASE HandleDeselect
  <2>1. /\ Running /\ BagIn(Deselect, flight) /\ Become(Deselect, {}) /\ shown' = FALSE
        /\ index' = 1 /\ UNCHANGED <<settingsVars, db, ours, items, stack, copy, dialog, finished>>
    BY <1>12 DEF HandleDeselect, stored
  <2> QED
    BY <2>1, Kinds, Typed, QuietHandleStep DEF WindowsOK
<1>13. ASSUME NEW item \in Item, HandleLoaded(item)
       PROVE  TInv' /\ OnSecondX
  BY <1>13, HandleLoadedStep
<1>14. ASSUME NEW files \in SUBSET Item, HandleReloaded(files)
       PROVE  TInv' /\ OnSecondX
  BY <1>14, HandleReloadedStep
<1>15. ASSUME NEW d \in Dialogs, HandleSetKind(d)
       PROVE  TInv' /\ OnSecondX
  <2>1. /\ Running /\ BagIn(SetKind(d), flight) /\ Become(SetKind(d), {})
        /\ dialog' = dialog \/ (Top = "prompt" /\ dialog' = d)
        /\ UNCHANGED <<settingsVars, db, ours, items, stack, copy, shown, index, finished>>
    BY <1>15 DEF HandleSetKind, stored
  <2> QED
    BY <2>1, Kinds, Typed, QuietHandleStep DEF WindowsOK
<1>16. ASSUME NEW done \in BOOLEAN, HandleFeedback(done)
       PROVE  TInv' /\ OnSecondX
  <2>1. /\ Running /\ BagIn(Feedback(done), flight) /\ Become(Feedback(done), {})
        /\ finished' = done \/ finished' = finished
        /\ UNCHANGED <<settingsVars, db, ours, items, stack, copy, shown, index, dialog>>
    BY <1>16 DEF HandleFeedback, stored
  <2> QED
    BY <2>1, Kinds, Typed, QuietHandleStep DEF WindowsOK
<1>17. CASE HandleQuit \/ Kill
  BY <1>17, EndStep DEF HandleQuit, Kill
<1>18. CASE UNCHANGED vars
  BY <1>18, StutterStep
<1> QED
  BY <1>1, <1>2, <1>3, <1>4, <1>5, <1>6, <1>7, <1>8, <1>9, <1>10, <1>11, <1>12, <1>13,
     <1>14, <1>15, <1>16, <1>17, <1>18, <1>19, <1>20 DEF Next

(* The invariant holds of every state reached.                             *)
LEMMA Invariant == Spec => []TInv
<1>1. Init => TInv
  BY InitInv
<1>2. TInv /\ [Next]_vars => TInv'
  BY NextStep
<1> QED
  BY <1>1, <1>2, PTL DEF Spec

(* The variables of the terminal interface stay within their types: above  *)
(* all the cursor of the API keys stays within their list, whatever is     *)
(* created, deleted or reloaded.                                           *)
THEOREM TypeCorrect == Spec => []TypeOK
<1>1. TInv => TypeOK
  BY DEF TInv
<1> QED
  BY <1>1, Invariant, PTL

(* The program panics for want of a view only if a key was pressed while a *)
(* view was being left, or the list of files reloaded; and for an option   *)
(* that is not there only if one was while a prompt was about to open.     *)
THEOREM PanicsOnlyWhenRushed == Spec => []PanicOnlyWhenRushed
<1>1. TInv => PanicOnlyWhenRushed
  BY DEF TInv, Core, Care, PopsFit, IndexFits, PanicOnlyWhenRushed
<1> QED
  BY <1>1, Invariant, PTL

(* A prompt that takes an answer is about the file chosen last, unless     *)
(* loads crossed or one is under way.                                      *)
THEOREM PromptActsOnChosen == Spec => []ActsOnChosen
<1>1. TInv => ActsOnChosen
  BY DEF TInv, Core, LoadsChosen, ActsOnChosen
<1> QED
  BY <1>1, Invariant, PTL

(* A session makes a private file public only by its user's last yes about *)
(* it, be it at once or by a later edit of the copy: a no, an answer for   *)
(* another file, or a copy loaded late does not, as long as no key crossed *)
(* a load.  What others change behind the session's copy is apart.         *)
THEOREM PublicByConsent == Spec => PublishedByConsent
<1>1. TInv /\ [Next]_vars =>
         [\A f \in Files : db[f] = "private" /\ db'[f] = "public" /\ f \in ours' =>
             f \in asked' \/ f \notin ours \/ "load" \in rushed']_vars
  BY ConsentStep DEF OnConsent
<1> QED
  BY <1>1, Invariant, PTL DEF Spec, PublishedByConsent

(* When all is quiet and no key was rushed, the list shows the database of *)
(* the files this session has changed last, or nobody, and no options      *)
(* window is left for a file it deleted unless loads crossed.              *)
THEOREM QuietIsCaughtUp == Spec => []CaughtUp
<1>1. ASSUME TInv, ended = "no", flight = EmptyBag, rushed \cap {"push", "pop"} = {}
      PROVE  /\ \A i \in Item : i.id \in ours => (i \in items <=> i \in Found)
             /\ ~crossed => \A n \in 1..Len(stack) : stack[n] = "options" => db[copy.id] # "deleted"
  <2>1. \A kinds : ~UnderWay(kinds)
    BY <1>1 DEF UnderWay, EmptyBag, SetToBag, BagToSet
  <2>2. Fresh(items)
    BY <1>1, <2>1 DEF TInv, Core, ItemsFresh
  <2>3. ~crossed => copy.id = chosen
    BY <1>1, <2>1 DEF TInv, Core, LoadsChosen
  <2>4. HasOptions /\ ~crossed => db[chosen] # "deleted"
    BY <1>1, <2>1 DEF TInv, Core, OptionsFit
  <2>5. \A i \in Item : i.id \in ours => (i \in items <=> i \in Found)
    BY <2>2, FoundIs DEF Fresh
  <2> QED
    BY <2>3, <2>4, <2>5 DEF HasOptions
<1>2. TInv => CaughtUp
  BY <1>1 DEF CaughtUp
<1> QED
  BY <1>2, Invariant, PTL

(* An API key is deleted by an x that follows an x on that key, with no    *)
(* key between them that the settings have seen.                           *)
THEOREM SecondXDeletes == Spec => DeletedOnSecondX
<1>1. TInv /\ [Next]_vars => [\A k \in keys \ keys' : pressed = k]_vars
  BY NextStep DEF OnSecondX
<1> QED
  BY <1>1, Invariant, PTL DEF Spec, DeletedOnSecondX
=============================================================================
