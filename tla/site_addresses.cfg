SPECIFICATION Spec
CONSTANTS
    page = page
    folder = folder
    dotPage = dotPage
    Word <- Words
    Empty = Empty
    Here = Here
    Parent = Parent
    Ellipsis = Ellipsis
    Null = Null
    Blank = Blank
    MacFolder = MacFolder
    Hidden <- DotPages
    Bare <- WithoutDot
    Permitted <- Pages
    Refused = Refused
    Letter = Letter
    Capital = Capital
    Hyphen = Hyphen
    Dot = Dot
    Space = Space
    MinLabel = 3
    MaxLabel = 3
    Reserved <- ReservedLabels
    Development = FALSE
    NoTenant = NoTenant
    Label <- Labels
    Path <- Paths
    Archive <- Archives
    DefaultIndex <- IndexHtml
    MaxFiles = 1
INVARIANTS KeysCanonical ListedNamesWork IndexIsFound LiveUrlReaches
