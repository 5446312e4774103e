--------------------------- MODULE MCAuditEngine ---------------------------
(* A launcher script, a test fixture, and a shared object that also has a source
   extension. *)
EXTENDS AuditEngine

F(file, arm, sev, rule, tainted, test, sources) ==
    [file |-> file, arm |-> arm, sev |-> sev, rule |-> rule, tainted |-> tainted,
     test |-> test, sources |-> sources]

MCPool ==
    << F("so", "source", "HIGH", "NET_001", FALSE, FALSE, {}),
       F("so", "binary", "HIGH", "BIN_002", FALSE, FALSE, {"dynsym"}),
       F("so", "binary", "HIGH", "BIN_005", FALSE, FALSE, {"needed"}),
       F("so", "binary", "HIGH", "BIN_001", FALSE, FALSE, {"entropy"}),
       F("run", "source", "HIGH", "CMD_001", TRUE, FALSE, {}),
       F("run", "cpg", "HIGH", "CPG_001", TRUE, FALSE, {}),
       F("test", "source", "MEDIUM", "FIL_001", FALSE, TRUE, {}) >>

R(v, r) == [verdict |-> v, risk |-> r]
MCReplies == {R("MALICIOUS", ""), R("SUSPICIOUS", "MEDIUM"), R("BENIGN", ""),
              R("BENIGN", "HIGH"), R("garbled", "")}
MCRepliesLow == MCReplies \cup {R("MALICIOUS", "LOW")}
=============================================================================
