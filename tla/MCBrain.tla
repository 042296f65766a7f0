------------------------------- MODULE MCBrain -------------------------------
(* The instances for TLC of the Brain's two conversations, which keep no     *)
(* state in common: the catalogue draft and the confirmation of actions.  A  *)
(* behaviour is one of one part, so that the sizes of the state spaces add   *)
(* up.                                                                       *)
EXTENDS CatalogDraft, RabtaConversation, TLC

CONSTANTS famA, famB, big, onePack, low, high, r1, r2

VARIABLE part

Says(c, weight, mrp) == [code |-> c, size |-> big, pack |-> onePack, dim |-> low,
                         weight |-> weight, mrp |-> mrp]

Both == [r \in Refs |-> IF r = r1 THEN Says(famA, low, low) ELSE Says(famB, high, high)]

\* The record of the first family gets another price limit.
Versions == {Both[r1], Both[r2], Says(famA, low, high)}

Cites(v, r) == [value |-> v, ref |-> r]

\* A family with values of its record, one of which that record may lose; another product
\* code with a value of the first family's record; and that code with values cited of its
\* own record, one of them out of bounds and one that the record never had, and a price.
Answers ==
    { [intent |-> "CREATE_FAMILY",
       sets |-> "code" :> Cites(famA, NoValue) @@ "size" :> Cites(big, NoValue)
                @@ "dim" :> Cites(low, r1) @@ "mrp" :> Cites(low, r1)],
      [intent |-> "UPSERT_SKUS", sets |-> "code" :> Cites(famB, NoValue)
                                          @@ "dim" :> Cites(low, r1)],
      [intent |-> "UPSERT_SKUS",
       sets |-> "code" :> Cites(famB, NoValue) @@ "size" :> Cites(big, NoValue)
                @@ "weight" :> Cites(high, r2) @@ "mrp" :> Cites(low, r2)
                @@ "price" :> Cites(low, NoValue)] }

brainVars == <<part, saved, parsed, families, known, evidence, pastEvidence, chat,
               suspended, turn, made, published, remembered, confirms, rejects>>

BrainInit ==
    /\ part \in {"draft", "conversation"}
    /\ DraftInit /\ (part # "draft" => families = {})
    /\ ConvInit

DraftPart == part = "draft" /\ DraftNext /\ UNCHANGED convVars
ConversationPart == part = "conversation" /\ ConvNext /\ UNCHANGED draftVars

BrainNext == (DraftPart \/ ConversationPart) /\ UNCHANGED part

BrainSpec == BrainInit /\ [][BrainNext]_brainVars

Interchangeable == Permutations(Chats) \cup Permutations(Turns)
===============================================================================
