\* Arguments of up to four characters over an alphabet with both quote
\* characters, the backslash, upper case, a digit and a multibyte character.
CONSTANTS
  MaxLen = 4
  Keywords <- MC_Keywords
SPECIFICATION Spec
INVARIANTS
  TypeOK
  QuoteLiteralRoundTrip
  QuoteIdentifierNamesColumn
  NamespaceNamesClusterSchema
  MkqueryLiteralsReadBack
  NamespaceFitsAllocation
