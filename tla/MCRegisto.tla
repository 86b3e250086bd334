----------------------------- MODULE MCRegisto -----------------------------
(* All the operations of Registo; threads and names may be exchanged. *)
EXTENDS Registo
CONSTANTS ana, rui, tema1, f1, f2
Todas == {"registar", "adicionartopico", "criartopico", "criarideia", "vender",
          "apagar", "responder"}
Simetria == Permutations(Fios) \cup Permutations(Nomes)
=============================================================================
