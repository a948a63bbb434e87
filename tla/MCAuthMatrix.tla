------------------------------ MODULE MCAuthMatrix -----------------------------
(* AuthMatrix with an owner and a stranger. *)
EXTENDS AuthMatrix

CONSTANTS owner, stranger

MCAlloweds ==
  {<<>>, <<owner>>, <<stranger>>, <<owner, stranger>>, <<stranger, owner>>}

MCEntries == VaultEntries \cup EscrowEntries
================================================================================
