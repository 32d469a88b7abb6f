SPECIFICATION Spec
CONSTANTS
  ELEMENTS = 2  WIDTH = 4  PAGES = 2
  CategoryOf <- MCCategoryOf  LowerOf <- MCLowerOf  UpperOf <- MCUpperOf  TitleOf <- MCTitleOf
  Ascii = {0, 1, 2, 3, 4, 5, 6, 7}  Underscore = 2  Controls = {0}  VerticalTab = 1
  Literals = {1, 2, 4, 5, 9, 12, 13}  Names <- MCNames
  MaxItems = 3  MaxDepth = 2
INVARIANTS BuildsAgree
PROPERTIES MetaInClass
