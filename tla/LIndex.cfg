CONSTANTS
  Names <- MCNames
  Dirs = {"@", "/home", "/h", "/n"}
  Home = "/home"
  Docs <- MCDocs
  NoPath = NoPath
  Threads = {t1, t2}
  Links <- MCLinks
  Loadable <- MCGuests
  Exporting <- MCGuests
  LookupDocs <- MCLookupDocs
SPECIFICATION LookupSpec
INVARIANTS RoutesAgree NativeNamesLead SymbolOfCaller
