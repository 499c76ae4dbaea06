SPECIFICATION ExtractSpec
CONSTANTS
  Type <- MCType
  Name <- MCName
  Shape <- MCShape
  Declared <- MCDeclared
  Declarations <- MCDeclarations
  Self = "Self"
  Analyzed = {"Self", "Other", "Far", "Box"}
INVARIANTS
  ReferencesAreExact
  FactsAreOfTheBody
  DocsAreOfTheField
