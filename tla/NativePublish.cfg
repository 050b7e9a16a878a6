SPECIFICATION Spec
CONSTANTS
    User = {ann, bob}
    Host = {ann, bob}
    Content = {c1, c2}
    Push = {p1, p2}
    Manager = {m1}
    None = None
    Ecosystem = {"npm", "cargo", "nuget", "composer", "rubygems", "maven", "pypi"}
    Refusing = {"npm", "cargo", "nuget", "composer", "rubygems", "pypi"}
SYMMETRY Symmetric
INVARIANTS TypeOK  InsertedByWriter  
 
CHECK_DEADLOCK FALSE
