----------------------------- MODULE MCCodegen -----------------------------
(* Small instances of Codegen and SwitchRun.                                *)
EXTENDS SwitchRun

AllStatements == {"expr", "decl", "return", "continue", "break", "compound", "if",
                  "switch", "case", "default", "while", "do", "for"}
=============================================================================
